---- MODULE Spec2Model ----
(***************************************************************************)
(* Model of the CGI generation pipeline: processProject (the orchestrator  *)
(* of server/routes.ts, latest revision), the Kling video adapter          *)
(* generateVideoWithKling with its audio step addAudioToVideo              *)
(* (server/services/kling-video.ts) and the Gemini adapters                *)
(* (server/services/gemini.ts).                                            *)
(*                                                                         *)
(* A run is one invocation of processProject.  Every await of the code is  *)
(* one action: the action performs the awaited operation and the           *)
(* synchronous code that follows it up to the next await.                  *)
(*                                                                         *)
(* Spec              runs of processProject over a stored Project; the     *)
(*                   external AI services and the image upload may fail,   *)
(*                   storage is available.                                 *)
(* SpecStorageFaults the same runs, and a storage write may throw.         *)
(* SpecKling         generateVideoWithKling called directly (as            *)
(*                   test-kling-standalone.js does) with every             *)
(*                   combination of its parameters.                        *)
(* SpecCreate        two concurrent requests to POST /api/projects and the *)
(*                   runs they start, up to the write of enhancing_prompt. *)
(* SpecCreateFair    SpecCreate with every enabled continuation run.       *)
(* SpecCompose       generateImageWithGemini called directly with every    *)
(*                   response of the image model.                          *)
(***************************************************************************)
EXTENDS Integers, Sequences, FiniteSets, TLC

(***************************************************************************)
(* Program constants.                                                      *)
(***************************************************************************)
GEMINI_PROMPT_ENHANCEMENT == 2
GEMINI_IMAGE_GENERATION == 2
GEMINI_VIDEO_ANALYSIS == 3
VIDEO_GENERATION == 130

\* poll limit of generateVideoWithKling
maxAttempts == 60
\* poll limit of addAudioToVideo (also named maxAttempts in the source)
audioMaxAttempts == 30

(***************************************************************************)
(* Bounds of the model.                                                    *)
(***************************************************************************)
\* how many storage writes may throw in one behaviour of SpecStorageFaults
MaxStorageFaults == 1

Runs == {"r1", "r2"}
ProjectIds == {"p1", "p2"}

NULL == "<null>"
NoProject == [absent |-> TRUE]
\* storage.getUser finds no row
NoUser == [absent |-> TRUE]

ContentTypes == {"image", "video"}
\* projects.description is a nullable text column
Descriptions == {NULL, "red sofa"}
\* projects.videoDurationSeconds: 5 or 10 seconds
Durations == {5, 10}

(***************************************************************************)
(* Text helpers.                                                           *)
(***************************************************************************)
\* JavaScript  a || b  on nullable strings: the empty string is falsy too
OrElse(a, b) == IF a = NULL \/ a = "" THEN b ELSE a

\* s.includes(t)
Contains(s, t) ==
  \E i \in 1..(Len(s) - Len(t) + 1) : SubSeq(s, i, i + Len(t) - 1) = t

\* s.startsWith(t)
StartsWith(s, t) == Len(s) >= Len(t) /\ SubSeq(s, 1, Len(t)) = t

(***************************************************************************)
(* The projects table (shared/schema.ts) and storage.updateProject.        *)
(***************************************************************************)
NewProject(ct, desc, dur, audio) ==
  [ userId |-> "u1",
    contentType |-> ct,
    description |-> desc,
    videoDurationSeconds |-> dur,
    includeAudio |-> audio,
    creditsUsed |-> IF ct = "image" THEN 1 ELSE 5,
    status |-> "pending",
    progress |-> 0,
    enhancedPrompt |-> NULL,
    outputImageUrl |-> NULL,
    outputVideoUrl |-> NULL,
    klingVideoTaskId |-> NULL,
    klingSoundTaskId |-> NULL,
    errorMessage |-> NULL,
    actualCost |-> 0 ]

\* UPDATE projects SET ...updates WHERE id = ...: no row, no effect
ApplyUpdates(row, updates) ==
  IF row = NoProject THEN row
  ELSE [f \in DOMAIN row |-> IF f \in DOMAIN updates THEN updates[f] ELSE row[f]]

VARIABLES
  projects,             \* storage: project id -> row, or NoProject
  storageFaults,        \* how many more storage writes may throw
  geminiKey,            \* process.env.GEMINI_API_KEY is set
  klingKey,             \* process.env.KLING_API_KEY is set
  pc,                   \* run -> the await the run is suspended at
  caller,               \* run -> who called the video adapter
  projectId,            \* run -> argument of processProject
  project,              \* run -> const project = await storage.getProject()
  totalCostMillicents,  \* run -> let totalCostMillicents
  enhancedPrompt,       \* run -> let enhancedPrompt
  geminiImageResult,    \* run -> let geminiImageResult
  imageUrl,             \* run -> imageResult.url / imageUrl parameter
  finalVideoPrompt,     \* run -> let finalVideoPrompt / prompt parameter
  error,                \* run -> message of the exception in flight
  includeAudio,         \* run -> includeAudio parameter of the video adapter
  recovery,             \* run -> projectId && storage were passed to the adapter
  taskId,               \* run -> task id of the video job
  attempts,             \* run -> attempts of the video poll loop
  videoUrl,             \* run -> videoUrl found in the completed status
  soundTaskId,          \* run -> task id of the audio job
  audioAttempts,        \* run -> attempts of the audio poll loop
  videoWithAudioUrl,    \* run -> videoWithAudioUrl found by addAudioToVideo
  videoResult,          \* run -> what generateVideoWithKling returned or threw
  writes,               \* run -> the updates the run has written, in order
  calls,                \* run -> the adapters the run has invoked, in order
  posts,                \* run -> job submissions (POST) sent to the provider
  submitted,            \* run -> the outcomes of its job submissions, in order
  users,                \* storage: user id -> row, or NoUser
  user,                 \* request -> const user = await storage.getUser()
  projectData,          \* request -> the parsed body of the request
  res,                  \* request -> the response sent, or NoResponse
  started,              \* project id -> invocations of processProject
  statusChecks,         \* run -> status checks (GET) of the video task
  audioChecks,          \* run -> status checks (GET) of the audio task
  onlyRunning,          \* run -> every video status check so far said still running
  reported,             \* run -> the end of the video task that a status check reported
  imageResponse,        \* run -> the response of the image model to a direct call
  openingCredits        \* the balance of the requesting user before the requests

envVars == <<geminiKey, klingKey>>
\* the users table and the locals of the creation endpoint
apiVars == <<users, user, projectData, res, started>>
\* fixed for the whole of a run
idVars == <<caller, projectId>>
\* locals of processProject other than the cost total and the exception
pipeVars == <<project, enhancedPrompt, geminiImageResult, imageUrl, finalVideoPrompt>>
\* parameters and locals of generateVideoWithKling and addAudioToVideo
klingVars == <<includeAudio, recovery, taskId, attempts, videoUrl, soundTaskId,
               audioAttempts, videoWithAudioUrl, videoResult, onlyRunning,
               reported>>
vars == <<projects, storageFaults, geminiKey, klingKey, pc, caller, projectId,
          project, totalCostMillicents, enhancedPrompt, geminiImageResult,
          imageUrl, finalVideoPrompt, error, includeAudio, recovery, taskId,
          attempts, videoUrl, soundTaskId, audioAttempts, videoWithAudioUrl,
          videoResult, writes, calls, posts, statusChecks, audioChecks,
          onlyRunning, reported, submitted, users, user, projectData, res, started,
          imageResponse, openingCredits>>

(***************************************************************************)
(* Storage writes and exceptions.                                          *)
(***************************************************************************)
\* the outcomes of one storage write: TRUE the write lands, FALSE it throws
WriteOutcomes == IF storageFaults > 0 THEN {TRUE, FALSE} ELSE {TRUE}

StorageError == "storage write failed"

\* await storage.updateProject(projectId, updates); a write that throws
\* changes nothing
UpdateProject(r, updates, ok) ==
  /\ projects' = IF ok
                 THEN [projects EXCEPT ![projectId[r]] = ApplyUpdates(@, updates)]
                 ELSE projects
  /\ writes' = IF ok THEN [writes EXCEPT ![r] = Append(@, updates)] ELSE writes
  /\ storageFaults' = IF ok THEN storageFaults ELSE storageFaults - 1

\* an exception leaves the try block of processProject for its catch clause
Goto(r, next, ok, msg) ==
  /\ pc' = [pc EXCEPT ![r] = IF ok THEN next ELSE "CatchFailed"]
  /\ error' = [error EXCEPT ![r] = IF ok THEN @ ELSE msg]

\* an awaited updateProject inside the try block of processProject: the run
\* goes on to next, or to the catch clause when the write throws
Write(r, updates, next) ==
  \E ok \in WriteOutcomes :
    /\ UpdateProject(r, updates, ok)
    /\ Goto(r, next, ok, StorageError)

Invoke(r, fn, arg) == calls' = [calls EXCEPT ![r] = Append(@, [fn |-> fn, arg |-> arg])]

(***************************************************************************)
(* Gemini adapters (server/services/gemini.ts).                            *)
(***************************************************************************)
\* response.text() of the prompt model: any text, the empty text included
GeminiTexts == {"", "Remove ONLY the old sofa. Insert the product."}

\* whether the call to the Gemini API goes through: never without a key
GeminiOutcomes == IF geminiKey THEN {TRUE, FALSE} ELSE {FALSE}

\* Faulty variant of enhancePromptWithGemini: no fallback text when the
\* request fails.  C8 fails for it.
enhancePromptWithGemini_NoFallback(ok, text, userDescription) ==
  IF ok THEN text ELSE ""

enhancePromptWithGemini(ok, text, userDescription) ==
  IF ok THEN text
  ELSE "Professional CGI integration of product into scene with realistic lighting, shadows, and natural placement. High quality, photorealistic rendering. "
       \o userDescription

\* options.duration is project.videoDurationSeconds || undefined
enhanceVideoPromptWithGemini(ok, text, userDescription, optDuration) ==
  IF ok THEN text
  ELSE LET duration == IF optDuration = 0 THEN 5 ELSE optDuration
       IN "Professional cinematic " \o ToString(duration)
          \o "-second video showcasing the product in the scene. Begin with an establishing shot, then smoothly "
          \o (IF duration <= 5 THEN "zoom in to highlight product details"
              ELSE "move around the product with dynamic camera work")
          \o ", ending with a hero shot. Use smooth camera movements, professional lighting, and commercial video quality. "
          \o userDescription

\* The parts of candidates[0].content.parts, by what the scan of
\* generateImageWithGemini finds in them.
PartKinds == {"text", "inlineImage", "inlineOther", "fileFetched", "fileFetchFails", "fileNoUri"}

\* longest parts list of a response
MaxParts == 2

PartLists == UNION {[1..n -> PartKinds] : n \in 0..MaxParts}

\* what generateContent of the image model does: the API call throws, the
\* response has no candidates, or it has the parts of its first candidate
ImageResponses ==
  {[kind |-> "apiError", parts |-> <<>>], [kind |-> "noCandidates", parts |-> <<>>]}
    \cup {[kind |-> "candidates", parts |-> ps] : ps \in PartLists}

ImageOutcomes ==
  IF geminiKey THEN ImageResponses ELSE {[kind |-> "apiError", parts |-> <<>>]}

NoImage == [base64 |-> NULL, mimeType |-> NULL]

\* Faulty variant of ScanParts: a file reference whose fetch fails ends
\* the scan.  C30 fails for it.
RECURSIVE ScanParts_AbortOnFetchError(_, _)
ScanParts_AbortOnFetchError(parts, i) ==
  IF i > Len(parts) THEN NoImage
  ELSE IF parts[i] = "inlineImage" THEN [base64 |-> "inline image bytes", mimeType |-> "image/png"]
  ELSE IF parts[i] = "fileFetched" THEN [base64 |-> "fetched image bytes", mimeType |-> "image/jpeg"]
  ELSE IF parts[i] = "fileFetchFails" THEN NoImage
  ELSE ScanParts_AbortOnFetchError(parts, i + 1)

\* for (const part of parts): the first part that yields image data
RECURSIVE ScanParts(_, _)
ScanParts(parts, i) ==
  IF i > Len(parts) THEN NoImage
  ELSE IF parts[i] = "inlineImage" THEN [base64 |-> "inline image bytes", mimeType |-> "image/png"]
  ELSE IF parts[i] = "fileFetched" THEN [base64 |-> "fetched image bytes", mimeType |-> "image/jpeg"]
  ELSE ScanParts(parts, i + 1)

\* the result of generateImageWithGemini: [ok, value] or [ok = FALSE, message]
generateImageWithGemini(response) ==
  LET wrap(m) == [ok |-> FALSE, message |-> "Failed to generate image with Gemini: " \o m]
  IN IF response.kind = "apiError" THEN wrap("API request failed")
     ELSE IF response.kind = "noCandidates"
       THEN wrap("No image generated by Gemini - no candidates in response")
     ELSE IF Len(response.parts) = 0 THEN wrap("No content parts in Gemini response")
     ELSE IF ScanParts(response.parts, 1) = NoImage
       THEN wrap("No image data found in Gemini response - check response structure analysis above")
     ELSE [ok |-> TRUE, value |-> ScanParts(response.parts, 1)]

\* enhanceVideoPromptFromGeneratedImage catches every failure of its own and
\* returns a fallback prompt: it never throws
enhanceVideoPromptFromGeneratedImage(ok, userDescription, duration) ==
  IF ok
  THEN "PROFESSIONAL CGI VIDEO GENERATION: Smooth " \o ToString(duration)
       \o "-second camera movement showcasing the product with cinematic flow"
  ELSE "Professional CGI video: "
       \o (IF duration <= 5
           THEN "Smooth 5-second product focus with subtle camera push-in and gentle rotation"
           ELSE "Dynamic 10-second sequence with opening wide shot, smooth dolly movement, and close-up product showcase finale")
       \o ". Ultra-realistic " \o ToString(duration)
       \o "-second commercial-quality sequence showcasing the product. Cinematic lighting, smooth motion, high-resolution output. "
       \o userDescription

(***************************************************************************)
(* processProject: the orchestrator.                                       *)
(***************************************************************************)
\* Faulty variant of Charge: the cost total is one counter of the module
\* that every run adds to, not a local of each call.  C31 fails for it.
Charge_SharedTotal(r, amount) ==
  totalCostMillicents' = [q \in Runs |-> totalCostMillicents[q] + amount]

\* totalCostMillicents += amount, on the local of this call
Charge(r, amount) ==
  totalCostMillicents' = [totalCostMillicents EXCEPT ![r] = @ + amount]

\* Faulty variant of GetProject: a Project that is not pending any more is
\* refused, so a second call for it does nothing.  C32 fails for it.
GetProject_OnlyPending(r) ==
  /\ pc[r] = "GetProject"
  /\ project' = [project EXCEPT ![r] = projects[projectId[r]]]
  /\ Goto(r, "SetProcessing",
          projects[projectId[r]] # NoProject /\ projects[projectId[r]].status = "pending",
          "Project not found")
  /\ UNCHANGED <<projects, storageFaults, envVars, imageResponse, openingCredits, apiVars, idVars, totalCostMillicents,
                 enhancedPrompt, geminiImageResult, imageUrl, finalVideoPrompt,
                 klingVars, writes, calls, posts, submitted, statusChecks, audioChecks>>

\* const project = await storage.getProject(projectId)
GetProject(r) ==
  /\ pc[r] = "GetProject"
  /\ project' = [project EXCEPT ![r] = projects[projectId[r]]]
  /\ Goto(r, "SetProcessing", projects[projectId[r]] # NoProject, "Project not found")
  /\ UNCHANGED <<projects, storageFaults, envVars, imageResponse, openingCredits, apiVars, idVars, totalCostMillicents,
                 enhancedPrompt, geminiImageResult, imageUrl, finalVideoPrompt,
                 klingVars, writes, calls, posts, submitted, statusChecks, audioChecks>>

SetProcessing(r) ==
  /\ pc[r] = "SetProcessing"
  /\ Write(r, [status |-> "processing", progress |-> 10], "SetEnhancingPrompt")
  /\ UNCHANGED <<envVars, imageResponse, openingCredits, apiVars, idVars, pipeVars, totalCostMillicents, klingVars, calls,
                 posts, submitted, statusChecks, audioChecks>>

SetEnhancingPrompt(r) ==
  /\ pc[r] = "SetEnhancingPrompt"
  /\ Write(r, [status |-> "enhancing_prompt", progress |-> 25], "EnhancePrompt")
  /\ UNCHANGED <<envVars, imageResponse, openingCredits, apiVars, idVars, pipeVars, totalCostMillicents, klingVars, calls,
                 posts, submitted, statusChecks, audioChecks>>

\* Step 1: the prompt enhancement call and its finally block
EnhancePrompt(r) ==
  /\ pc[r] = "EnhancePrompt"
  /\ \E ok \in GeminiOutcomes, text \in GeminiTexts :
       /\ enhancedPrompt' = [enhancedPrompt EXCEPT ![r] =
            IF project[r].contentType = "video"
            THEN enhanceVideoPromptWithGemini(ok, text,
                   OrElse(project[r].description, "CGI video generation"),
                   project[r].videoDurationSeconds)
            ELSE enhancePromptWithGemini(ok, text,
                   OrElse(project[r].description, "CGI image generation"))]
       /\ Invoke(r, IF project[r].contentType = "video"
                    THEN "enhanceVideoPromptWithGemini" ELSE "enhancePromptWithGemini",
                 [ok |-> ok, userDescription |-> project[r].description])
  /\ Charge(r, GEMINI_PROMPT_ENHANCEMENT)
  /\ pc' = [pc EXCEPT ![r] = "SaveEnhancedPrompt"]
  /\ UNCHANGED <<projects, storageFaults, envVars, imageResponse, openingCredits, apiVars, idVars, project,
                 geminiImageResult, imageUrl, finalVideoPrompt, error, klingVars,
                 writes, posts, submitted, statusChecks, audioChecks>>

SaveEnhancedPrompt(r) ==
  /\ pc[r] = "SaveEnhancedPrompt"
  /\ Write(r, [enhancedPrompt |-> enhancedPrompt[r], progress |-> 50], "SetGeneratingImage")
  /\ UNCHANGED <<envVars, imageResponse, openingCredits, apiVars, idVars, pipeVars, totalCostMillicents, klingVars, calls,
                 posts, submitted, statusChecks, audioChecks>>

SetGeneratingImage(r) ==
  /\ pc[r] = "SetGeneratingImage"
  /\ Write(r, [status |-> "generating_image", progress |-> 60], "GenerateImage")
  /\ UNCHANGED <<envVars, imageResponse, openingCredits, apiVars, idVars, pipeVars, totalCostMillicents, klingVars, calls,
                 posts, submitted, statusChecks, audioChecks>>

\* Faulty variant of GenerateImage: the charge follows the call instead of
\* sitting in a finally block, so a call that throws is not charged.  C3
\* fails for it.
GenerateImage_ChargeOnSuccess(r) ==
  /\ pc[r] = "GenerateImage"
  /\ \E response \in ImageOutcomes :
       LET result == generateImageWithGemini(response)
       IN /\ geminiImageResult' = [geminiImageResult EXCEPT ![r] =
               IF result.ok THEN result.value ELSE @]
          /\ Goto(r, "UploadImage", result.ok,
                  IF result.ok THEN "" ELSE result.message)
          /\ Invoke(r, "generateImageWithGemini",
                    [prompt |-> enhancedPrompt[r], threw |-> ~result.ok])
          /\ Charge(r, IF result.ok THEN GEMINI_IMAGE_GENERATION ELSE 0)
  /\ UNCHANGED <<projects, storageFaults, envVars, imageResponse, openingCredits, apiVars, idVars, project, enhancedPrompt,
                 imageUrl, finalVideoPrompt, klingVars, writes, posts, submitted, statusChecks,
                 audioChecks>>

\* Faulty variant of GenerateImage: a composition that throws is attempted
\* a second time before the run gives up.  C22 fails for it.
GenerateImage_RetryOnce(r) ==
  /\ pc[r] = "GenerateImage"
  /\ \E response \in ImageOutcomes :
       LET result == generateImageWithGemini(response)
           first == \A i \in 1..Len(calls[r]) : calls[r][i].fn # "generateImageWithGemini"
       IN /\ geminiImageResult' = [geminiImageResult EXCEPT ![r] =
               IF result.ok THEN result.value ELSE @]
          /\ IF ~result.ok /\ first
             THEN pc' = pc /\ UNCHANGED error
             ELSE Goto(r, "UploadImage", result.ok,
                       IF result.ok THEN "" ELSE result.message)
          /\ Invoke(r, "generateImageWithGemini",
                    [prompt |-> enhancedPrompt[r], threw |-> ~result.ok])
  /\ Charge(r, GEMINI_IMAGE_GENERATION)
  /\ UNCHANGED <<projects, storageFaults, envVars, imageResponse, openingCredits, apiVars, idVars, project, enhancedPrompt,
                 imageUrl, finalVideoPrompt, klingVars, writes, posts, submitted, statusChecks,
                 audioChecks>>

\* Step 2: the image composition call and its finally block
GenerateImage(r) ==
  /\ pc[r] = "GenerateImage"
  /\ \E response \in ImageOutcomes :
       LET result == generateImageWithGemini(response)
       IN /\ geminiImageResult' = [geminiImageResult EXCEPT ![r] =
               IF result.ok THEN result.value ELSE @]
          /\ Goto(r, "UploadImage", result.ok,
                  IF result.ok THEN "" ELSE result.message)
          /\ Invoke(r, "generateImageWithGemini",
                    [prompt |-> enhancedPrompt[r], threw |-> ~result.ok])
  /\ Charge(r, GEMINI_IMAGE_GENERATION)
  /\ UNCHANGED <<projects, storageFaults, envVars, imageResponse, openingCredits, apiVars, idVars, project, enhancedPrompt,
                 imageUrl, finalVideoPrompt, klingVars, writes, posts, submitted, statusChecks,
                 audioChecks>>

\* secure_url of the uploaded image
CloudinaryUrl == "https://res.cloudinary.com/cgi/image/upload/cgi-generated/generated-1.png"

\* cloudinary.uploader.upload_stream: resolve(result) or reject(error)
UploadImage(r) ==
  /\ pc[r] = "UploadImage"
  /\ \E ok \in BOOLEAN :
       /\ imageUrl' = [imageUrl EXCEPT ![r] = IF ok THEN CloudinaryUrl ELSE @]
       /\ Goto(r, "SaveOutputImage", ok, "Unknown error")
  /\ UNCHANGED <<projects, storageFaults, envVars, imageResponse, openingCredits, apiVars, idVars, project,
                 totalCostMillicents, enhancedPrompt, geminiImageResult,
                 finalVideoPrompt, klingVars, writes, calls, posts, submitted, statusChecks,
                 audioChecks>>

\* Faulty variant of SaveOutputImage: the video block is entered whatever
\* the content type.  C4 fails for it.
SaveOutputImage_AlwaysVideo(r) ==
  /\ pc[r] = "SaveOutputImage"
  /\ \E ok \in WriteOutcomes :
       /\ UpdateProject(r, [outputImageUrl |-> imageUrl[r], progress |-> 75], ok)
       /\ Goto(r, "SetGeneratingVideo78", ok, StorageError)
       /\ finalVideoPrompt' = [finalVideoPrompt EXCEPT ![r] =
            IF ok THEN enhancedPrompt[r] ELSE @]
  /\ UNCHANGED <<envVars, imageResponse, openingCredits, apiVars, idVars, project, totalCostMillicents, enhancedPrompt,
                 geminiImageResult, imageUrl, klingVars, calls, posts, submitted, statusChecks,
                 audioChecks>>

\* the write of outputImageUrl, then  let finalVideoPrompt = enhancedPrompt
SaveOutputImage(r) ==
  /\ pc[r] = "SaveOutputImage"
  /\ \E ok \in WriteOutcomes :
       /\ UpdateProject(r, [outputImageUrl |-> imageUrl[r], progress |-> 75], ok)
       /\ Goto(r, IF project[r].contentType = "video"
                  THEN "SetGeneratingVideo78" ELSE "SetCompleted",
               ok, StorageError)
       /\ finalVideoPrompt' = [finalVideoPrompt EXCEPT ![r] =
            IF ok THEN enhancedPrompt[r] ELSE @]
  /\ UNCHANGED <<envVars, imageResponse, openingCredits, apiVars, idVars, project, totalCostMillicents, enhancedPrompt,
                 geminiImageResult, imageUrl, klingVars, calls, posts, submitted, statusChecks,
                 audioChecks>>

SetGeneratingVideo78(r) ==
  /\ pc[r] = "SetGeneratingVideo78"
  /\ Write(r, [status |-> "generating_video", progress |-> 78], "AnalyzeGeneratedImage")
  /\ UNCHANGED <<envVars, imageResponse, openingCredits, apiVars, idVars, pipeVars, totalCostMillicents, klingVars, calls,
                 posts, submitted, statusChecks, audioChecks>>

\* Step 2.5: the analysis of the generated image.  The adapter returns in
\* every case, so the charge that follows the call is always made and the
\* catch clause of this step is never entered.
AnalyzeGeneratedImage(r) ==
  /\ pc[r] = "AnalyzeGeneratedImage"
  /\ \E ok \in GeminiOutcomes :
       /\ finalVideoPrompt' = [finalVideoPrompt EXCEPT ![r] =
            enhanceVideoPromptFromGeneratedImage(ok,
              OrElse(project[r].description, ""),
              project[r].videoDurationSeconds)]
       /\ Invoke(r, "enhanceVideoPromptFromGeneratedImage", [ok |-> ok])
  /\ Charge(r, GEMINI_VIDEO_ANALYSIS)
  /\ pc' = [pc EXCEPT ![r] = "SetGeneratingVideo80"]
  /\ UNCHANGED <<projects, storageFaults, envVars, imageResponse, openingCredits, apiVars, idVars, project, enhancedPrompt,
                 geminiImageResult, imageUrl, error, klingVars, writes, posts, submitted,
                 statusChecks, audioChecks>>

\* Step 3: the write of progress 80, then the call
\* generateVideoWithKling(imageResult.url, finalVideoPrompt, duration, false)
SetGeneratingVideo80(r) ==
  /\ pc[r] = "SetGeneratingVideo80"
  /\ \E ok \in WriteOutcomes :
       /\ UpdateProject(r, [status |-> "generating_video", progress |-> 80], ok)
       /\ Goto(r, "KlingSubmit", ok, StorageError)
       /\ calls' = IF ok
                   THEN [calls EXCEPT ![r] = Append(@, [fn |-> "generateVideoWithKling",
                                                        arg |-> finalVideoPrompt[r]])]
                   ELSE calls
  /\ includeAudio' = [includeAudio EXCEPT ![r] = FALSE]
  /\ recovery' = [recovery EXCEPT ![r] = FALSE]
  /\ UNCHANGED <<envVars, imageResponse, openingCredits, apiVars, idVars, pipeVars, totalCostMillicents, taskId, attempts,
                 videoUrl, soundTaskId, audioAttempts, videoWithAudioUrl,
                 videoResult, onlyRunning, reported, posts, submitted, statusChecks, audioChecks>>

\* Faulty variant of SaveOutputVideo: an error of the video generator is
\* logged and the run goes on to completed, as the earlier revision of
\* processProject did.  C6 fails for it.
SaveOutputVideo_ImageIsEnough(r) ==
  /\ pc[r] = "KlingReturned"
  /\ caller[r] = "processProject"
  /\ IF videoResult[r].ok
     THEN \E ok \in WriteOutcomes :
            /\ UpdateProject(r, [outputVideoUrl |-> videoResult[r].url, progress |-> 95], ok)
            /\ pc' = [pc EXCEPT ![r] = IF ok THEN "SetCompleted" ELSE "VideoFailed"]
            /\ error' = [error EXCEPT ![r] = IF ok THEN @ ELSE StorageError]
     ELSE /\ pc' = [pc EXCEPT ![r] = "SetCompleted"]
          /\ UNCHANGED <<projects, storageFaults, writes, error>>
  /\ Charge(r, VIDEO_GENERATION)
  /\ UNCHANGED <<envVars, imageResponse, openingCredits, apiVars, idVars, pipeVars, klingVars, calls, posts, submitted, statusChecks,
                 audioChecks>>

\* Faulty variant of SaveOutputVideo: the charge follows the call instead of
\* sitting in a finally block, so a video generation that throws is not
\* charged.  C12 fails for it.
SaveOutputVideo_ChargeOnSuccess(r) ==
  /\ pc[r] = "KlingReturned"
  /\ caller[r] = "processProject"
  /\ IF videoResult[r].ok
     THEN \E ok \in WriteOutcomes :
            /\ UpdateProject(r, [outputVideoUrl |-> videoResult[r].url, progress |-> 95], ok)
            /\ pc' = [pc EXCEPT ![r] = IF ok THEN "SetCompleted" ELSE "VideoFailed"]
            /\ error' = [error EXCEPT ![r] = IF ok THEN @ ELSE StorageError]
     ELSE /\ pc' = [pc EXCEPT ![r] = "VideoFailed"]
          /\ error' = [error EXCEPT ![r] = videoResult[r].message]
          /\ UNCHANGED <<projects, storageFaults, writes>>
  /\ Charge(r, IF videoResult[r].ok THEN VIDEO_GENERATION ELSE 0)
  /\ UNCHANGED <<envVars, imageResponse, openingCredits, apiVars, idVars, pipeVars, klingVars, calls, posts, submitted, statusChecks,
                 audioChecks>>

\* Faulty variant of SaveOutputVideo: the charge is the last statement of the
\* try block instead of a finally block, so it is skipped when the adapter
\* or the write of outputVideoUrl throws.  C35 fails for it.
SaveOutputVideo_ChargeAtEndOfTry(r) ==
  /\ pc[r] = "KlingReturned"
  /\ caller[r] = "processProject"
  /\ IF videoResult[r].ok
     THEN \E ok \in WriteOutcomes :
            /\ UpdateProject(r, [outputVideoUrl |-> videoResult[r].url, progress |-> 95], ok)
            /\ pc' = [pc EXCEPT ![r] = IF ok THEN "SetCompleted" ELSE "VideoFailed"]
            /\ error' = [error EXCEPT ![r] = IF ok THEN @ ELSE StorageError]
            /\ Charge(r, IF ok THEN VIDEO_GENERATION ELSE 0)
     ELSE /\ pc' = [pc EXCEPT ![r] = "VideoFailed"]
          /\ error' = [error EXCEPT ![r] = videoResult[r].message]
          /\ UNCHANGED <<projects, storageFaults, writes, totalCostMillicents>>
  /\ UNCHANGED <<envVars, imageResponse, openingCredits, apiVars, idVars, pipeVars, klingVars, calls, posts, submitted, statusChecks,
                 audioChecks>>

\* the adapter has returned or thrown: the write of outputVideoUrl when it
\* returned, and the finally block that charges the video generation
SaveOutputVideo(r) ==
  /\ pc[r] = "KlingReturned"
  /\ caller[r] = "processProject"
  /\ IF videoResult[r].ok
     THEN \E ok \in WriteOutcomes :
            /\ UpdateProject(r, [outputVideoUrl |-> videoResult[r].url, progress |-> 95], ok)
            /\ pc' = [pc EXCEPT ![r] = IF ok THEN "SetCompleted" ELSE "VideoFailed"]
            /\ error' = [error EXCEPT ![r] = IF ok THEN @ ELSE StorageError]
     ELSE /\ pc' = [pc EXCEPT ![r] = "VideoFailed"]
          /\ error' = [error EXCEPT ![r] = videoResult[r].message]
          /\ UNCHANGED <<projects, storageFaults, writes>>
  /\ Charge(r, VIDEO_GENERATION)
  /\ UNCHANGED <<envVars, imageResponse, openingCredits, apiVars, idVars, pipeVars, klingVars, calls, posts, submitted, statusChecks,
                 audioChecks>>

\* Faulty variant of VideoFailed: the failure write also clears the image
\* output.  C15 fails for it.
VideoFailed_DiscardsImage(r) ==
  /\ pc[r] = "VideoFailed"
  /\ \E ok \in WriteOutcomes :
       /\ UpdateProject(r, [errorMessage |-> "Video generation failed: " \o error[r],
                            status |-> "failed", outputImageUrl |-> NULL], ok)
       /\ error' = [error EXCEPT ![r] = IF ok THEN @ ELSE StorageError]
  /\ pc' = [pc EXCEPT ![r] = "CatchFailed"]
  /\ UNCHANGED <<envVars, imageResponse, openingCredits, apiVars, idVars, pipeVars, totalCostMillicents, klingVars, calls,
                 posts, submitted, statusChecks, audioChecks>>

\* Faulty variant of VideoFailed: the error message is stored without
\* status failed, and the error is swallowed.  C18 fails for it.
VideoFailed_MessageOnly(r) ==
  /\ pc[r] = "VideoFailed"
  /\ \E ok \in WriteOutcomes :
       /\ UpdateProject(r, [errorMessage |-> "Video generation failed: " \o error[r]], ok)
       /\ pc' = [pc EXCEPT ![r] = IF ok THEN "SetCompleted" ELSE "CatchFailed"]
       /\ error' = [error EXCEPT ![r] = IF ok THEN @ ELSE StorageError]
  /\ UNCHANGED <<envVars, imageResponse, openingCredits, apiVars, idVars, pipeVars, totalCostMillicents, klingVars, calls,
                 posts, submitted, statusChecks, audioChecks>>

\* Faulty variant of VideoFailed: the error is stored but not thrown again,
\* so the run goes on to completed.  C1 fails for it.
VideoFailed_NoRethrow(r) ==
  /\ pc[r] = "VideoFailed"
  /\ \E ok \in WriteOutcomes :
       /\ UpdateProject(r, [errorMessage |-> "Video generation failed: " \o error[r],
                            status |-> "failed"], ok)
       /\ pc' = [pc EXCEPT ![r] = IF ok THEN "SetCompleted" ELSE "CatchFailed"]
       /\ error' = [error EXCEPT ![r] = IF ok THEN @ ELSE StorageError]
  /\ UNCHANGED <<envVars, imageResponse, openingCredits, apiVars, idVars, pipeVars, totalCostMillicents, klingVars, calls,
                 posts, submitted, statusChecks, audioChecks>>

\* catch (videoError): store the error, then  throw videoError
VideoFailed(r) ==
  /\ pc[r] = "VideoFailed"
  /\ \E ok \in WriteOutcomes :
       /\ UpdateProject(r, [errorMessage |-> "Video generation failed: " \o error[r],
                            status |-> "failed"], ok)
       /\ error' = [error EXCEPT ![r] = IF ok THEN @ ELSE StorageError]
  /\ pc' = [pc EXCEPT ![r] = "CatchFailed"]
  /\ UNCHANGED <<envVars, imageResponse, openingCredits, apiVars, idVars, pipeVars, totalCostMillicents, klingVars, calls,
                 posts, submitted, statusChecks, audioChecks>>

\* Faulty variant of SetCompleted: the completion write leaves out the
\* cost.  C19 fails for it.
SetCompleted_NoCost(r) ==
  /\ pc[r] = "SetCompleted"
  /\ \E ok \in WriteOutcomes :
       /\ UpdateProject(r, [status |-> "completed", progress |-> 100], ok)
       /\ Goto(r, "done", ok, StorageError)
  /\ UNCHANGED <<envVars, imageResponse, openingCredits, apiVars, idVars, pipeVars, totalCostMillicents, klingVars, calls,
                 posts, submitted, statusChecks, audioChecks>>

\* Faulty variant of SetCompleted: the run deducts the credits of the
\* Project from its owner before it marks the Project completed, as the
\* first revision of processProject did.  C26 fails for it.
SetCompleted_DeductCredits(r) ==
  /\ pc[r] = "SetCompleted"
  /\ \E ok \in WriteOutcomes :
       /\ UpdateProject(r, [status |-> "completed", progress |-> 100,
                            actualCost |-> totalCostMillicents[r]], ok)
       /\ Goto(r, "done", ok, StorageError)
  /\ users' = [users EXCEPT ![project[r].userId] =
                 IF @ = NoUser THEN @
                 ELSE [@ EXCEPT !.credits = @ - project[r].creditsUsed]]
  /\ UNCHANGED <<envVars, imageResponse, openingCredits, user, projectData, res, started, idVars, pipeVars,
                 totalCostMillicents, klingVars, calls,
                 posts, submitted, statusChecks, audioChecks>>

\* Mark as completed and update actual cost
SetCompleted(r) ==
  /\ pc[r] = "SetCompleted"
  /\ \E ok \in WriteOutcomes :
       /\ UpdateProject(r, [status |-> "completed", progress |-> 100,
                            actualCost |-> totalCostMillicents[r]], ok)
       /\ Goto(r, "done", ok, StorageError)
  /\ UNCHANGED <<envVars, imageResponse, openingCredits, apiVars, idVars, pipeVars, totalCostMillicents, klingVars, calls,
                 posts, submitted, statusChecks, audioChecks>>

\* Faulty variant of CatchFailed: the failure write resets progress.  C13
\* fails for it.
CatchFailed_ResetProgress(r) ==
  /\ pc[r] = "CatchFailed"
  /\ \E ok \in WriteOutcomes :
       /\ UpdateProject(r, [status |-> "failed", progress |-> 0,
                            errorMessage |-> error[r],
                            actualCost |-> totalCostMillicents[r]], ok)
       /\ pc' = [pc EXCEPT ![r] = IF ok THEN "done" ELSE "rejected"]
  /\ UNCHANGED <<envVars, imageResponse, openingCredits, apiVars, idVars, pipeVars, totalCostMillicents, error, klingVars,
                 calls, posts, submitted, statusChecks, audioChecks>>

\* Faulty variant of CatchFailed: the failure is stored without its
\* message.  C5 fails for it.
CatchFailed_NoMessage(r) ==
  /\ pc[r] = "CatchFailed"
  /\ \E ok \in WriteOutcomes :
       /\ UpdateProject(r, [status |-> "failed",
                            actualCost |-> totalCostMillicents[r]], ok)
       /\ pc' = [pc EXCEPT ![r] = IF ok THEN "done" ELSE "rejected"]
  /\ UNCHANGED <<envVars, imageResponse, openingCredits, apiVars, idVars, pipeVars, totalCostMillicents, error, klingVars,
                 calls, posts, submitted, statusChecks, audioChecks>>

\* the catch clause of processProject; when its own write throws, the
\* promise of processProject rejects
CatchFailed(r) ==
  /\ pc[r] = "CatchFailed"
  /\ \E ok \in WriteOutcomes :
       /\ UpdateProject(r, [status |-> "failed", errorMessage |-> error[r],
                            actualCost |-> totalCostMillicents[r]], ok)
       /\ pc' = [pc EXCEPT ![r] = IF ok THEN "done" ELSE "rejected"]
  /\ UNCHANGED <<envVars, imageResponse, openingCredits, apiVars, idVars, pipeVars, totalCostMillicents, error, klingVars,
                 calls, posts, submitted, statusChecks, audioChecks>>

(***************************************************************************)
(* generateVideoWithKling and addAudioToVideo                              *)
(* (server/services/kling-video.ts).                                       *)
(***************************************************************************)
\* the body of a job-creation response: result.data.task_id or result.task_id
SubmitResponses ==
  [ok : BOOLEAN, hasData : BOOLEAN, dataTaskId : {NULL, "task-1"},
   topTaskId : {NULL, "task-1"}]

\* const taskData = result.data || result; const taskId = taskData.task_id
ExtractTaskId(result) ==
  IF result.hasData THEN result.dataTaskId ELSE result.topTaskId

\* the body has a task id somewhere: data.task_id or task_id
HasTaskId(result) ==
  (result.hasData /\ result.dataTaskId # NULL) \/ result.topTaskId # NULL

\* what is kept of the response to a job submission
SubmitOutcome(job, result) ==
  [job |-> job, ok |-> result.ok, hasTaskId |-> HasTaskId(result)]

\* the three places of a status response that may hold the video URL
Outputs(base) ==
  [video_url : {NULL, base \o "/video_url.mp4"},
   resource_without_watermark : {NULL, base \o "/resource_without_watermark.mp4"},
   resource : {NULL, base \o "/resource.mp4"}]

NoOutput == [video_url |-> NULL, resource_without_watermark |-> NULL, resource |-> NULL]

\* What one status check (GET) can bring back.  http = 0: fetch itself
\* throws; http # 200: !statusResponse.ok with its error text.
StatusResponses(base) ==
  {[http |-> 0, text |-> "", status |-> "", output |-> NoOutput]}
    \cup [http : {400}, text : {"failed to find task", "bad request"},
          status : {""}, output : {NoOutput}]
    \cup [http : {404, 500}, text : {"error"}, status : {""}, output : {NoOutput}]
    \cup [http : {200}, text : {""}, status : {"completed", "success"},
          output : Outputs(base)]
    \cup [http : {200}, text : {""},
          status : {"failed", "error", "processing", "pending", "running", "queued"},
          output : {NoOutput}]

\* Faulty variant of VideoUrlOf: the watermarked resource is preferred to
\* the one without watermark.  C28 fails for it.
VideoUrlOf_WatermarkedFirst(output) ==
  OrElse(output.video_url, OrElse(output.resource, output.resource_without_watermark))

\* output.video_url || works[0].video.resource_without_watermark
\*                  || works[0].video.resource
VideoUrlOf(output) ==
  OrElse(output.video_url, OrElse(output.resource_without_watermark, output.resource))

VideoBase == "https://cdn.kling.ai/video"
AudioBase == "https://cdn.kling.ai/sound"

\* Faulty variant of KlingPrecheck: the request is prepared without a look
\* at KLING_API_KEY.  C25 fails for it.
KlingPrecheck_NoKeyCheck(url, key) ==
  IF url = NULL \/ url = "" \/ (~StartsWith(url, "http://") /\ ~StartsWith(url, "https://"))
    THEN "Invalid image URL: " \o url
  ELSE IF StartsWith(url, "/9j/") \/ Len(url) > 1000
    THEN "CRITICAL: Still sending base64 instead of URL! Length: " \o ToString(Len(url))
  ELSE NULL

\* the checks of generateVideoWithKling before it sends anything: NULL when
\* they pass, else the message of the error thrown
KlingPrecheck(url, key) ==
  IF url = NULL \/ url = "" \/ (~StartsWith(url, "http://") /\ ~StartsWith(url, "https://"))
    THEN "Invalid image URL: " \o url
  ELSE IF ~key THEN "KLING_API_KEY environment variable is required"
  ELSE IF StartsWith(url, "/9j/") \/ Len(url) > 1000
    THEN "CRITICAL: Still sending base64 instead of URL! Length: " \o ToString(Len(url))
  ELSE NULL

\* generateVideoWithKling has neither returned nor thrown
NoResult == [ok |-> FALSE, message |-> NULL]

\* catch (error) of generateVideoWithKling: re-throw with more context
KlingThrow(r, msg) ==
  /\ videoResult' = [videoResult EXCEPT ![r] =
       [ok |-> FALSE, message |-> "Kling AI video generation failed: " \o msg]]
  /\ pc' = [pc EXCEPT ![r] = "KlingReturned"]

\* return { url: finalVideoUrl, duration: durationSeconds }
KlingReturn(r, url) ==
  /\ videoResult' = [videoResult EXCEPT ![r] = [ok |-> TRUE, url |-> url]]
  /\ pc' = [pc EXCEPT ![r] = "KlingReturned"]

\* Faulty variant of KlingSubmit: a successful response is not checked for
\* its task id.  C16 fails for it.
KlingSubmit_NoTaskIdCheck(r) ==
  /\ pc[r] = "KlingSubmit"
  /\ IF KlingPrecheck(imageUrl[r], klingKey) # NULL
     THEN /\ KlingThrow(r, KlingPrecheck(imageUrl[r], klingKey))
          /\ UNCHANGED <<taskId, posts, submitted>>
     ELSE \E result \in SubmitResponses :
            /\ posts' = [posts EXCEPT ![r] = @ + 1]
            /\ submitted' = [submitted EXCEPT ![r] =
                 Append(@, SubmitOutcome("video", result))]
            /\ IF ~result.ok
               THEN /\ KlingThrow(r, "Kling AI API error: 500 - error")
                    /\ UNCHANGED taskId
               ELSE /\ taskId' = [taskId EXCEPT ![r] = ExtractTaskId(result)]
                    /\ pc' = [pc EXCEPT ![r] = IF recovery[r] THEN "KlingCheckpoint"
                                               ELSE "KlingPoll"]
                    /\ UNCHANGED videoResult
  /\ UNCHANGED <<projects, storageFaults, envVars, imageResponse, openingCredits, apiVars, idVars, pipeVars,
                 totalCostMillicents, error, includeAudio, recovery, attempts,
                 videoUrl, soundTaskId, audioAttempts, videoWithAudioUrl,
                 onlyRunning, reported, writes, calls, statusChecks, audioChecks>>

\* the checks, then the POST that creates the video job
KlingSubmit(r) ==
  /\ pc[r] = "KlingSubmit"
  /\ IF KlingPrecheck(imageUrl[r], klingKey) # NULL
     THEN /\ KlingThrow(r, KlingPrecheck(imageUrl[r], klingKey))
          /\ UNCHANGED <<taskId, posts, submitted>>
     ELSE \E result \in SubmitResponses :
            /\ posts' = [posts EXCEPT ![r] = @ + 1]
            /\ submitted' = [submitted EXCEPT ![r] =
                 Append(@, SubmitOutcome("video", result))]
            /\ IF ~result.ok
               THEN /\ KlingThrow(r, "Kling AI API error: 500 - error")
                    /\ UNCHANGED taskId
               ELSE IF ExtractTaskId(result) = NULL
               THEN /\ KlingThrow(r, "Kling AI API error: No task_id returned. Response: {}")
                    /\ UNCHANGED taskId
               ELSE /\ taskId' = [taskId EXCEPT ![r] = ExtractTaskId(result)]
                    /\ pc' = [pc EXCEPT ![r] = IF recovery[r] THEN "KlingCheckpoint"
                                               ELSE "KlingPoll"]
                    /\ UNCHANGED videoResult
  /\ UNCHANGED <<projects, storageFaults, envVars, imageResponse, openingCredits, apiVars, idVars, pipeVars,
                 totalCostMillicents, error, includeAudio, recovery, attempts,
                 videoUrl, soundTaskId, audioAttempts, videoWithAudioUrl,
                 onlyRunning, reported, writes, calls, statusChecks, audioChecks>>

\* Faulty variant of KlingCheckpoint: the save is not wrapped in try/catch,
\* so a save that throws ends the video generation.  C23 fails for it.
KlingCheckpoint_Fatal(r) ==
  /\ pc[r] = "KlingCheckpoint"
  /\ \E ok \in WriteOutcomes :
       /\ UpdateProject(r, [klingVideoTaskId |-> taskId[r]], ok)
       /\ IF ok
          THEN pc' = [pc EXCEPT ![r] = "KlingPoll"] /\ UNCHANGED videoResult
          ELSE KlingThrow(r, StorageError)
  /\ UNCHANGED <<envVars, imageResponse, openingCredits, apiVars, idVars, pipeVars, totalCostMillicents, error,
                 includeAudio, recovery, taskId, attempts, videoUrl, soundTaskId,
                 audioAttempts, videoWithAudioUrl, onlyRunning, reported,
                 calls, posts, submitted, statusChecks, audioChecks>>

\* RECOVERY SYSTEM: save the task id; a failed save is logged and ignored
KlingCheckpoint(r) ==
  /\ pc[r] = "KlingCheckpoint"
  /\ \E ok \in WriteOutcomes :
       UpdateProject(r, [klingVideoTaskId |-> taskId[r]], ok)
  /\ pc' = [pc EXCEPT ![r] = "KlingPoll"]
  /\ UNCHANGED <<envVars, imageResponse, openingCredits, apiVars, idVars, pipeVars, totalCostMillicents, error, klingVars,
                 calls, posts, submitted, statusChecks, audioChecks>>

\* Faulty variant of ClassifyVideoStatus: a status that is neither
\* processing nor pending is taken for an error.  C9 fails for it.
ClassifyVideoStatus_RunningIsError(resp, n) ==
  IF resp.http = 0 THEN "fetch failed"
  ELSE IF resp.http # 200 THEN
    IF resp.http = 400 /\ Contains(resp.text, "failed to find task")
       /\ n <= maxAttempts - 5
      THEN "continue"
    ELSE IF n > 10 /\ (resp.http = 400 \/ resp.http = 404)
      THEN "Kling AI status check failed: HTTP " \o ToString(resp.http) \o " after "
           \o ToString(n) \o " attempts. Error: " \o resp.text
    ELSE "continue"
  ELSE IF resp.status = "completed" \/ resp.status = "success" THEN
    IF VideoUrlOf(resp.output) = NULL THEN "Video URL not found in Kling AI response"
    ELSE "completed"
  ELSE IF resp.status = "processing" \/ resp.status = "pending" THEN "continue"
  ELSE "Kling AI generation failed: Unknown error"

\* What one iteration of the video poll loop does with the status response:
\* "continue", "completed", or the message of the error it throws.
ClassifyVideoStatus(resp, n) ==
  IF resp.http = 0 THEN "fetch failed"
  ELSE IF resp.http # 200 THEN
    IF resp.http = 400 /\ Contains(resp.text, "failed to find task")
       /\ n <= maxAttempts - 5
      THEN "continue"
    ELSE IF n > 10 /\ (resp.http = 400 \/ resp.http = 404)
      THEN "Kling AI status check failed: HTTP " \o ToString(resp.http) \o " after "
           \o ToString(n) \o " attempts. Error: " \o resp.text
    ELSE "continue"
  ELSE IF resp.status = "completed" \/ resp.status = "success" THEN
    IF VideoUrlOf(resp.output) = NULL THEN "Video URL not found in Kling AI response"
    ELSE "completed"
  ELSE IF resp.status = "failed" \/ resp.status = "error"
    THEN "Kling AI generation failed: Unknown error"
  ELSE "continue"

\* the status check says the task has ended, well or badly
EndReported(resp) ==
  resp.http = 200 /\ resp.status \in {"completed", "success", "failed", "error"}

\* what is kept of such a status response: whether the task ended well
\* (completed or success) or badly (failed or error), and its output
Report(resp) ==
  [ended |-> IF resp.status \in {"completed", "success"} THEN "completed" ELSE "failed",
   output |-> resp.output]

\* no status check has said so yet
NoReport == [ended |-> "", output |-> NoOutput]

\* the status check says the task is still running
StillRunning(resp) ==
  resp.http = 200 /\ resp.status \in {"processing", "pending", "running"}

\* the error thrown when the while loop of the video poll runs out
VideoTimeout ==
  "Kling AI video generation timed out after " \o ToString(maxAttempts * 10) \o " seconds"

\* Faulty variant of KlingPoll: the audio step is given the URL of the video
\* instead of the id of the video task, as an earlier revision did.  C29
\* fails for it.
KlingPoll_AudioByUrl(r) ==
  /\ pc[r] = "KlingPoll"
  /\ attempts[r] < maxAttempts
  /\ attempts' = [attempts EXCEPT ![r] = @ + 1]
  /\ statusChecks' = [statusChecks EXCEPT ![r] = @ + 1]
  /\ \E resp \in StatusResponses(VideoBase) :
       LET n == attempts[r] + 1
           verdict == ClassifyVideoStatus(resp, n)
       IN /\ onlyRunning' = [onlyRunning EXCEPT ![r] = @ /\ StillRunning(resp)]
          /\ reported' = IF EndReported(resp)
                          THEN [reported EXCEPT ![r] = Report(resp)]
                          ELSE reported
          /\ IF verdict = "continue"
             THEN /\ IF n < maxAttempts
                     THEN pc' = pc /\ UNCHANGED videoResult
                     ELSE KlingThrow(r, VideoTimeout)
                  /\ UNCHANGED <<videoUrl, calls>>
             ELSE IF verdict = "completed"
             THEN /\ videoUrl' = [videoUrl EXCEPT ![r] = VideoUrlOf(resp.output)]
                  /\ IF includeAudio[r]
                     THEN /\ pc' = [pc EXCEPT ![r] = "AudioSubmit"]
                          /\ Invoke(r, "addAudioToVideo", VideoUrlOf(resp.output))
                          /\ UNCHANGED videoResult
                     ELSE /\ KlingReturn(r, VideoUrlOf(resp.output))
                          /\ UNCHANGED calls
             ELSE /\ KlingThrow(r, verdict)
                  /\ UNCHANGED <<videoUrl, calls>>
  /\ UNCHANGED <<projects, storageFaults, envVars, imageResponse, openingCredits, apiVars, idVars, pipeVars,
                 totalCostMillicents, error, includeAudio, recovery, taskId,
                 soundTaskId, audioAttempts, videoWithAudioUrl, writes, posts, submitted,
                 audioChecks>>

\* Faulty variant of KlingPoll: attempts counts the status checks that were
\* answered with HTTP 200 only, so checks that keep failing never use up
\* the loop.  C33 fails for it.
KlingPoll_CountAnswersOnly(r) ==
  /\ pc[r] = "KlingPoll"
  /\ attempts[r] < maxAttempts
  /\ statusChecks' = [statusChecks EXCEPT ![r] = @ + 1]
  /\ \E resp \in StatusResponses(VideoBase) :
       LET n == attempts[r] + 1
           verdict == ClassifyVideoStatus(resp, n)
       IN /\ attempts' = [attempts EXCEPT ![r] = IF resp.http = 200 THEN @ + 1 ELSE @]
          /\ onlyRunning' = [onlyRunning EXCEPT ![r] = @ /\ StillRunning(resp)]
          /\ reported' = IF EndReported(resp)
                          THEN [reported EXCEPT ![r] = Report(resp)]
                          ELSE reported
          /\ IF verdict = "continue"
             THEN /\ IF n < maxAttempts
                     THEN pc' = pc /\ UNCHANGED videoResult
                     ELSE KlingThrow(r, VideoTimeout)
                  /\ UNCHANGED <<videoUrl, calls>>
             ELSE IF verdict = "completed"
             THEN /\ videoUrl' = [videoUrl EXCEPT ![r] = VideoUrlOf(resp.output)]
                  /\ IF includeAudio[r]
                     THEN /\ pc' = [pc EXCEPT ![r] = "AudioSubmit"]
                          /\ Invoke(r, "addAudioToVideo", taskId[r])
                          /\ UNCHANGED videoResult
                     ELSE /\ KlingReturn(r, VideoUrlOf(resp.output))
                          /\ UNCHANGED calls
             ELSE /\ KlingThrow(r, verdict)
                  /\ UNCHANGED <<videoUrl, calls>>
  /\ UNCHANGED <<projects, storageFaults, envVars, imageResponse, openingCredits, apiVars, idVars, pipeVars,
                 totalCostMillicents, error, includeAudio, recovery, taskId,
                 soundTaskId, audioAttempts, videoWithAudioUrl, writes, posts, submitted,
                 audioChecks>>

\* one iteration of  while (attempts < maxAttempts)  of generateVideoWithKling
KlingPoll(r) ==
  /\ pc[r] = "KlingPoll"
  /\ attempts[r] < maxAttempts
  /\ attempts' = [attempts EXCEPT ![r] = @ + 1]
  /\ statusChecks' = [statusChecks EXCEPT ![r] = @ + 1]
  /\ \E resp \in StatusResponses(VideoBase) :
       LET n == attempts[r] + 1
           verdict == ClassifyVideoStatus(resp, n)
       IN /\ onlyRunning' = [onlyRunning EXCEPT ![r] = @ /\ StillRunning(resp)]
          /\ reported' = IF EndReported(resp)
                          THEN [reported EXCEPT ![r] = Report(resp)]
                          ELSE reported
          /\ IF verdict = "continue"
             THEN /\ IF n < maxAttempts
                     THEN pc' = pc /\ UNCHANGED videoResult
                     ELSE KlingThrow(r, VideoTimeout)
                  /\ UNCHANGED <<videoUrl, calls>>
             ELSE IF verdict = "completed"
             THEN /\ videoUrl' = [videoUrl EXCEPT ![r] = VideoUrlOf(resp.output)]
                  /\ IF includeAudio[r]
                     THEN /\ pc' = [pc EXCEPT ![r] = "AudioSubmit"]
                          /\ Invoke(r, "addAudioToVideo", taskId[r])
                          /\ UNCHANGED videoResult
                     ELSE /\ KlingReturn(r, VideoUrlOf(resp.output))
                          /\ UNCHANGED calls
             ELSE /\ KlingThrow(r, verdict)
                  /\ UNCHANGED <<videoUrl, calls>>
  /\ UNCHANGED <<projects, storageFaults, envVars, imageResponse, openingCredits, apiVars, idVars, pipeVars,
                 totalCostMillicents, error, includeAudio, recovery, taskId,
                 soundTaskId, audioAttempts, videoWithAudioUrl, writes, posts, submitted,
                 audioChecks>>

\* Faulty variant of AudioSubmit: an error of the audio submission is not
\* caught and fails the video generation.  C7 fails for it.
AudioSubmit_Fatal(r) ==
  /\ pc[r] = "AudioSubmit"
  /\ posts' = [posts EXCEPT ![r] = @ + 1]
  /\ \E result \in SubmitResponses :
      /\ submitted' = [submitted EXCEPT ![r] =
           Append(@, SubmitOutcome("audio", result))]
      /\
       IF ~result.ok \/ ExtractTaskId(result) = NULL
       THEN /\ KlingThrow(r, "Kling Sound API error: 500 - error")
            /\ UNCHANGED soundTaskId
       ELSE /\ soundTaskId' = [soundTaskId EXCEPT ![r] = "sound-" \o ExtractTaskId(result)]
            /\ pc' = [pc EXCEPT ![r] = IF recovery[r] THEN "AudioCheckpoint"
                                       ELSE "AudioPoll"]
            /\ UNCHANGED videoResult
  /\ UNCHANGED <<projects, storageFaults, envVars, imageResponse, openingCredits, apiVars, idVars, pipeVars,
                 totalCostMillicents, error, includeAudio, recovery, taskId,
                 attempts, videoUrl, audioAttempts, videoWithAudioUrl, onlyRunning, reported,
                 writes, calls, statusChecks, audioChecks>>

\* the POST that creates the audio job.  Every error of addAudioToVideo is
\* caught by its caller, which goes on with the silent video.
AudioSubmit(r) ==
  /\ pc[r] = "AudioSubmit"
  /\ posts' = [posts EXCEPT ![r] = @ + 1]
  /\ \E result \in SubmitResponses :
      /\ submitted' = [submitted EXCEPT ![r] =
           Append(@, SubmitOutcome("audio", result))]
      /\
       IF ~result.ok \/ ExtractTaskId(result) = NULL
       THEN /\ KlingReturn(r, videoUrl[r])
            /\ UNCHANGED soundTaskId
       ELSE /\ soundTaskId' = [soundTaskId EXCEPT ![r] = "sound-" \o ExtractTaskId(result)]
            /\ pc' = [pc EXCEPT ![r] = IF recovery[r] THEN "AudioCheckpoint"
                                       ELSE "AudioPoll"]
            /\ UNCHANGED videoResult
  /\ UNCHANGED <<projects, storageFaults, envVars, imageResponse, openingCredits, apiVars, idVars, pipeVars,
                 totalCostMillicents, error, includeAudio, recovery, taskId,
                 attempts, videoUrl, audioAttempts, videoWithAudioUrl, onlyRunning, reported,
                 writes, calls, statusChecks, audioChecks>>

AudioCheckpoint(r) ==
  /\ pc[r] = "AudioCheckpoint"
  /\ \E ok \in WriteOutcomes :
       UpdateProject(r, [klingSoundTaskId |-> soundTaskId[r]], ok)
  /\ pc' = [pc EXCEPT ![r] = "AudioPoll"]
  /\ UNCHANGED <<envVars, imageResponse, openingCredits, apiVars, idVars, pipeVars, totalCostMillicents, error, klingVars,
                 calls, posts, submitted, statusChecks, audioChecks>>

\* What one iteration of the audio poll loop does with the status response:
\* "continue", "completed" or "throw".
ClassifyAudioStatus(resp, n) ==
  IF resp.http = 0 THEN "throw"
  ELSE IF resp.http # 200 THEN
    IF n > 5 /\ (resp.http = 400 \/ resp.http = 404) THEN "throw" ELSE "continue"
  ELSE IF resp.status = "completed" \/ resp.status = "success" THEN
    IF VideoUrlOf(resp.output) = NULL THEN "throw" ELSE "completed"
  ELSE IF resp.status = "failed" \/ resp.status = "error" THEN "throw"
  ELSE "continue"

\* one iteration of  while (attempts < maxAttempts)  of addAudioToVideo, and
\* the return of generateVideoWithKling when the audio step ends
AudioPoll(r) ==
  /\ pc[r] = "AudioPoll"
  /\ audioAttempts[r] < audioMaxAttempts
  /\ audioAttempts' = [audioAttempts EXCEPT ![r] = @ + 1]
  /\ audioChecks' = [audioChecks EXCEPT ![r] = @ + 1]
  /\ \E resp \in StatusResponses(AudioBase) :
       LET n == audioAttempts[r] + 1
           verdict == ClassifyAudioStatus(resp, n)
       IN IF verdict = "continue" /\ n < audioMaxAttempts
          THEN pc' = pc /\ UNCHANGED <<videoResult, videoWithAudioUrl>>
          ELSE IF verdict = "completed"
          THEN /\ videoWithAudioUrl' = [videoWithAudioUrl EXCEPT ![r] =
                    VideoUrlOf(resp.output)]
               /\ KlingReturn(r, VideoUrlOf(resp.output))
          ELSE /\ KlingReturn(r, videoUrl[r])
               /\ UNCHANGED videoWithAudioUrl
  /\ UNCHANGED <<projects, storageFaults, envVars, imageResponse, openingCredits, apiVars, idVars, pipeVars,
                 totalCostMillicents, error, includeAudio, recovery, taskId,
                 attempts, videoUrl, soundTaskId, onlyRunning, reported, writes, calls, posts, submitted,
                 statusChecks>>

(***************************************************************************)
(* A direct call of generateVideoWithKling (test-kling-standalone.js).     *)
(***************************************************************************)
DirectCall(r) ==
  /\ pc[r] = "DirectCall"
  /\ pc' = [pc EXCEPT ![r] = "KlingSubmit"]
  /\ Invoke(r, "generateVideoWithKling", finalVideoPrompt[r])
  /\ UNCHANGED <<projects, storageFaults, envVars, imageResponse, openingCredits, apiVars, idVars, pipeVars,
                 totalCostMillicents, error, klingVars, writes, posts, submitted,
                 statusChecks, audioChecks>>

DirectReturn(r) ==
  /\ pc[r] = "KlingReturned"
  /\ caller[r] = "direct"
  /\ pc' = [pc EXCEPT ![r] = "done"]
  /\ UNCHANGED <<projects, storageFaults, envVars, imageResponse, openingCredits, apiVars, idVars, pipeVars,
                 totalCostMillicents, error, klingVars, writes, calls, posts, submitted,
                 statusChecks, audioChecks>>

(***************************************************************************)
(* A direct call of generateImageWithGemini.                               *)
(***************************************************************************)
\* generateContent has not been called
NoImageResponse == [kind |-> "none", parts |-> <<>>]

\* await model.generateContent([...]): the response of the image model, or
\* the error of the request
ComposeRequest(r) ==
  /\ pc[r] = "ComposeRequest"
  /\ \E response \in ImageOutcomes :
       imageResponse' = [imageResponse EXCEPT ![r] = response]
  /\ pc' = [pc EXCEPT ![r] = "ComposeScan"]
  /\ UNCHANGED <<projects, storageFaults, envVars, openingCredits, apiVars, idVars, pipeVars,
                 totalCostMillicents, error, klingVars, writes, calls, posts, submitted,
                 statusChecks, audioChecks>>

\* the scan of the response, and the return or the throw of the composer
ComposeScan(r) ==
  /\ pc[r] = "ComposeScan"
  /\ LET result == generateImageWithGemini(imageResponse[r])
     IN /\ geminiImageResult' = [geminiImageResult EXCEPT ![r] =
             IF result.ok THEN result.value ELSE @]
        /\ error' = [error EXCEPT ![r] = IF result.ok THEN @ ELSE result.message]
        /\ Invoke(r, "generateImageWithGemini",
                  [prompt |-> enhancedPrompt[r], threw |-> ~result.ok])
  /\ pc' = [pc EXCEPT ![r] = "done"]
  /\ UNCHANGED <<projects, storageFaults, envVars, imageResponse, openingCredits, apiVars, idVars, project,
                 enhancedPrompt, imageUrl, finalVideoPrompt, totalCostMillicents, klingVars,
                 writes, posts, submitted, statusChecks, audioChecks>>

(***************************************************************************)
(* POST /api/projects: the creation endpoint.  A request that gets through *)
(* starts the run of the same index.                                       *)
(***************************************************************************)
UserIds == {"u1"}

\* req.user.id of the requests
ReqUser == "u1"

\* largest credit balance of a user in the initial states
MaxCredits == 6

\* a row of the users table: its balance, and whether its email is the
\* admin's
Users == {NoUser} \cup [credits : 0..MaxCredits, isAdmin : BOOLEAN]

\* a body that insertProjectSchema.parse rejects
NoData == [valid |-> FALSE]

\* req.body
Bodies ==
  {NoData} \cup [valid : {TRUE}, contentType : ContentTypes, description : Descriptions,
                 videoDurationSeconds : Durations, includeAudio : BOOLEAN]

NoResponse == [status |-> 0, message |-> ""]

\* const creditsNeeded = projectData.contentType === "image" ? 1 : 5
creditsNeeded(data) == IF data.contentType = "image" THEN 1 ELSE 5

\* res.status(status).json({ message })
Respond(r, status, message) ==
  /\ res' = [res EXCEPT ![r] = [status |-> status, message |-> message]]
  /\ pc' = [pc EXCEPT ![r] = "responded"]

\* processProject(project.id).catch(console.error); res.json(project)
StartRun(r, id) ==
  /\ started' = [started EXCEPT ![id] = @ + 1]
  /\ res' = [res EXCEPT ![r] = [status |-> 200, message |-> ""]]
  /\ pc' = [pc EXCEPT ![r] = "GetProject"]

\* Faulty variant of PostProjects: the balance is not compared with the
\* credits needed.  C36 fails for it.
PostProjects_NoCreditCheck(r) ==
  /\ pc[r] = "PostProjects"
  /\ \E body \in Bodies :
       /\ projectData' = [projectData EXCEPT ![r] = body]
       /\ IF ~body.valid
          THEN /\ Respond(r, 400, "Invalid project data")
               /\ UNCHANGED user
          ELSE /\ user' = [user EXCEPT ![r] = users[ReqUser]]
               /\ IF users[ReqUser] = NoUser
                    THEN Respond(r, 404, "User not found")
                  ELSE /\ pc' = [pc EXCEPT ![r] = "CreateProject"]
                       /\ UNCHANGED res
  /\ UNCHANGED <<projects, storageFaults, envVars, imageResponse, openingCredits, users, started, idVars, pipeVars,
                 totalCostMillicents, error, klingVars, writes, calls, posts,
                 submitted, statusChecks, audioChecks>>

\* the body is parsed, the user is read and the credits are checked
PostProjects(r) ==
  /\ pc[r] = "PostProjects"
  /\ \E body \in Bodies :
       /\ projectData' = [projectData EXCEPT ![r] = body]
       /\ IF ~body.valid
          THEN /\ Respond(r, 400, "Invalid project data")
               /\ UNCHANGED user
          ELSE /\ user' = [user EXCEPT ![r] = users[ReqUser]]
               /\ IF users[ReqUser] = NoUser
                    THEN Respond(r, 404, "User not found")
                  ELSE IF ~users[ReqUser].isAdmin
                          /\ users[ReqUser].credits < creditsNeeded(body)
                    THEN Respond(r, 400, "Insufficient credits")
                  ELSE /\ pc' = [pc EXCEPT ![r] = "CreateProject"]
                       /\ UNCHANGED res
  /\ UNCHANGED <<projects, storageFaults, envVars, imageResponse, openingCredits, users, started, idVars, pipeVars,
                 totalCostMillicents, error, klingVars, writes, calls, posts,
                 submitted, statusChecks, audioChecks>>

\* Faulty variant of CreateProject: the id of the row is not generated but
\* taken as given, and a row that has it already is replaced.  C20 fails
\* for it.
CreateProject_GivenId(r) ==
  /\ pc[r] = "CreateProject"
  /\ \E ok \in WriteOutcomes :
       IF ~ok
       THEN /\ storageFaults' = storageFaults - 1
            /\ Respond(r, 500, "Failed to create project")
            /\ UNCHANGED <<projects, projectId, started>>
       ELSE \E id \in ProjectIds :
              /\ projects' = [projects EXCEPT ![id] =
                   NewProject(projectData[r].contentType, projectData[r].description,
                              projectData[r].videoDurationSeconds,
                              projectData[r].includeAudio)]
              /\ projectId' = [projectId EXCEPT ![r] = id]
              /\ UNCHANGED storageFaults
              /\ IF user[r].isAdmin
                 THEN StartRun(r, id)
                 ELSE /\ pc' = [pc EXCEPT ![r] = "UpdateUserCredits"]
                      /\ UNCHANGED <<started, res>>
  /\ UNCHANGED <<envVars, imageResponse, openingCredits, users, user, projectData, caller, pipeVars,
                 totalCostMillicents, error, klingVars, writes, calls, posts,
                 submitted, statusChecks, audioChecks>>

\* storage.createProject stores the row under a fresh id; an admin's
\* request goes straight on to start the run
CreateProject(r) ==
  /\ pc[r] = "CreateProject"
  /\ \E ok \in WriteOutcomes :
       IF ~ok
       THEN /\ storageFaults' = storageFaults - 1
            /\ Respond(r, 500, "Failed to create project")
            /\ UNCHANGED <<projects, projectId, started>>
       ELSE \E id \in ProjectIds :
              /\ projects[id] = NoProject
              /\ projects' = [projects EXCEPT ![id] =
                   NewProject(projectData[r].contentType, projectData[r].description,
                              projectData[r].videoDurationSeconds,
                              projectData[r].includeAudio)]
              /\ projectId' = [projectId EXCEPT ![r] = id]
              /\ UNCHANGED storageFaults
              /\ IF user[r].isAdmin
                 THEN StartRun(r, id)
                 ELSE /\ pc' = [pc EXCEPT ![r] = "UpdateUserCredits"]
                      /\ UNCHANGED <<started, res>>
  /\ UNCHANGED <<envVars, imageResponse, openingCredits, users, user, projectData, caller, pipeVars,
                 totalCostMillicents, error, klingVars, writes, calls, posts,
                 submitted, statusChecks, audioChecks>>

\* storage.updateUserCredits(userId, user.credits - creditsNeeded), then the
\* run is started
UpdateUserCredits(r) ==
  /\ pc[r] = "UpdateUserCredits"
  /\ \E ok \in WriteOutcomes :
       IF ~ok
       THEN /\ storageFaults' = storageFaults - 1
            /\ Respond(r, 500, "Failed to create project")
            /\ UNCHANGED <<users, started>>
       ELSE /\ users' = [users EXCEPT ![ReqUser] =
                 IF @ = NoUser THEN @
                 ELSE [@ EXCEPT !.credits = user[r].credits - creditsNeeded(projectData[r])]]
            /\ StartRun(r, projectId[r])
            /\ UNCHANGED storageFaults
  /\ UNCHANGED <<projects, envVars, imageResponse, openingCredits, user, projectData, idVars, pipeVars,
                 totalCostMillicents, error, klingVars, writes, calls, posts,
                 submitted, statusChecks, audioChecks>>

(***************************************************************************)
(* Initial states and specifications.                                      *)
(***************************************************************************)
\* the run that the specifications start; the other run stays idle
FirstRun == "r1"

\* the image URLs a direct caller passes: the data URL of the standalone
\* test, nothing, and a hosted image
DirectImageUrls == {"data:image/png;base64,iVBORw0KGgo", "", CloudinaryUrl}

\* the locals of every run before its first step
InitLocals ==
  /\ project = [r \in Runs |-> NoProject]
  /\ totalCostMillicents = [r \in Runs |-> 0]
  /\ enhancedPrompt = [r \in Runs |-> NULL]
  /\ geminiImageResult = [r \in Runs |-> NoImage]
  /\ error = [r \in Runs |-> NULL]
  /\ taskId = [r \in Runs |-> NULL]
  /\ attempts = [r \in Runs |-> 0]
  /\ videoUrl = [r \in Runs |-> NULL]
  /\ soundTaskId = [r \in Runs |-> NULL]
  /\ audioAttempts = [r \in Runs |-> 0]
  /\ videoWithAudioUrl = [r \in Runs |-> NULL]
  /\ videoResult = [r \in Runs |-> NoResult]
  /\ onlyRunning = [r \in Runs |-> TRUE]
  /\ reported = [r \in Runs |-> NoReport]
  /\ imageResponse = [r \in Runs |-> NoImageResponse]
  /\ writes = [r \in Runs |-> <<>>]
  /\ calls = [r \in Runs |-> <<>>]
  /\ posts = [r \in Runs |-> 0]
  /\ submitted = [r \in Runs |-> <<>>]
  /\ user = [r \in Runs |-> NoUser]
  /\ projectData = [r \in Runs |-> NoData]
  /\ res = [r \in Runs |-> NoResponse]
  /\ statusChecks = [r \in Runs |-> 0]
  /\ audioChecks = [r \in Runs |-> 0]

\* the rows POST /api/projects can have stored, and no row at all
StoredProjects ==
  {NoProject} \cup {NewProject(ct, desc, dur, audio) :
                      ct \in ContentTypes, desc \in Descriptions,
                      dur \in Durations, audio \in BOOLEAN}

\* processProject(project.id) has just been called for project p1
InitPipeline(faults) ==
  /\ projects \in [ProjectIds -> StoredProjects]
  /\ \A p \in ProjectIds \ {"p1"} : projects[p] = NoProject
  /\ storageFaults \in faults
  /\ geminiKey \in BOOLEAN
  /\ klingKey \in BOOLEAN
  /\ pc = [r \in Runs |-> IF r = FirstRun THEN "GetProject" ELSE "idle"]
  /\ caller = [r \in Runs |-> "processProject"]
  /\ projectId = [r \in Runs |-> "p1"]
  /\ imageUrl = [r \in Runs |-> NULL]
  /\ finalVideoPrompt = [r \in Runs |-> NULL]
  /\ includeAudio = [r \in Runs |-> FALSE]
  /\ recovery = [r \in Runs |-> FALSE]
  /\ users = [u \in UserIds |-> [credits |-> 0, isAdmin |-> FALSE]]
  /\ openingCredits = 0
  /\ started = [p \in ProjectIds |-> IF p = "p1" THEN 1 ELSE 0]
  /\ InitLocals

Init == InitPipeline({0})

InitStorageFaults == InitPipeline(0..MaxStorageFaults)

\* generateVideoWithKling is about to be called directly
InitKling ==
  /\ projects = [p \in ProjectIds |->
                   IF p = "p1" THEN NewProject("video", NULL, 5, TRUE) ELSE NoProject]
  /\ storageFaults \in 0..MaxStorageFaults
  /\ geminiKey = TRUE
  /\ klingKey \in BOOLEAN
  /\ pc = [r \in Runs |-> IF r = FirstRun THEN "DirectCall" ELSE "idle"]
  /\ caller = [r \in Runs |-> "direct"]
  /\ projectId = [r \in Runs |-> "p1"]
  /\ \E url \in DirectImageUrls : imageUrl = [r \in Runs |-> url]
  /\ finalVideoPrompt = [r \in Runs |-> "Create a smooth camera movement showcasing this product"]
  /\ \E audio \in BOOLEAN : includeAudio = [r \in Runs |-> audio]
  /\ \E rec \in BOOLEAN : recovery = [r \in Runs |-> rec]
  /\ users = [u \in UserIds |-> [credits |-> 0, isAdmin |-> FALSE]]
  /\ openingCredits = 0
  /\ started = [p \in ProjectIds |-> 0]
  /\ InitLocals

\* two creation requests have arrived and nothing is stored yet but the user
InitCreate ==
  /\ projects = [p \in ProjectIds |-> NoProject]
  /\ storageFaults \in 0..MaxStorageFaults
  /\ geminiKey = TRUE
  /\ klingKey = TRUE
  /\ pc = [r \in Runs |-> "PostProjects"]
  /\ caller = [r \in Runs |-> "processProject"]
  /\ projectId = [r \in Runs |-> NULL]
  /\ imageUrl = [r \in Runs |-> NULL]
  /\ finalVideoPrompt = [r \in Runs |-> NULL]
  /\ includeAudio = [r \in Runs |-> FALSE]
  /\ recovery = [r \in Runs |-> FALSE]
  /\ users \in [UserIds -> Users]
  /\ openingCredits = IF users[ReqUser] = NoUser THEN 0 ELSE users[ReqUser].credits
  /\ started = [p \in ProjectIds |-> 0]
  /\ InitLocals

\* generateImageWithGemini is about to be called directly, twice
InitCompose ==
  /\ projects = [p \in ProjectIds |-> NoProject]
  /\ storageFaults = 0
  /\ geminiKey \in BOOLEAN
  /\ klingKey = TRUE
  /\ pc = [r \in Runs |-> "ComposeRequest"]
  /\ caller = [r \in Runs |-> "direct"]
  /\ projectId = [r \in Runs |-> NULL]
  /\ imageUrl = [r \in Runs |-> NULL]
  /\ finalVideoPrompt = [r \in Runs |-> NULL]
  /\ includeAudio = [r \in Runs |-> FALSE]
  /\ recovery = [r \in Runs |-> FALSE]
  /\ users = [u \in UserIds |-> [credits |-> 0, isAdmin |-> FALSE]]
  /\ openingCredits = 0
  /\ started = [p \in ProjectIds |-> 0]
  /\ InitLocals

\* processProject has been called twice and both calls are in flight: for
\* two image Projects, or twice for the same one
InitPair ==
  /\ projects = [p \in ProjectIds |->
                   NewProject("image", IF p = "p1" THEN "red sofa" ELSE NULL, 5, FALSE)]
  /\ storageFaults = 0
  /\ geminiKey \in BOOLEAN
  /\ klingKey = TRUE
  /\ pc = [r \in Runs |-> "GetProject"]
  /\ caller = [r \in Runs |-> "processProject"]
  /\ \E p \in ProjectIds : projectId = [r \in Runs |-> IF r = FirstRun THEN "p1" ELSE p]
  /\ imageUrl = [r \in Runs |-> NULL]
  /\ finalVideoPrompt = [r \in Runs |-> NULL]
  /\ includeAudio = [r \in Runs |-> FALSE]
  /\ recovery = [r \in Runs |-> FALSE]
  /\ users = [u \in UserIds |-> [credits |-> 0, isAdmin |-> FALSE]]
  /\ openingCredits = 0
  /\ started = [p \in ProjectIds |-> Cardinality({r \in Runs : projectId[r] = p})]
  /\ InitLocals

\* generateVideoWithKling is about to be called directly, with its key set
\* and without the recovery parameters: the call gets to its poll loops
InitPoll ==
  /\ projects = [p \in ProjectIds |-> NoProject]
  /\ storageFaults = 0
  /\ geminiKey = TRUE
  /\ klingKey = TRUE
  /\ pc = [r \in Runs |-> IF r = FirstRun THEN "DirectCall" ELSE "idle"]
  /\ caller = [r \in Runs |-> "direct"]
  /\ projectId = [r \in Runs |-> NULL]
  /\ imageUrl = [r \in Runs |-> CloudinaryUrl]
  /\ finalVideoPrompt = [r \in Runs |-> "Create a smooth camera movement showcasing this product"]
  /\ \E audio \in BOOLEAN : includeAudio = [r \in Runs |-> audio]
  /\ recovery = [r \in Runs |-> FALSE]
  /\ users = [u \in UserIds |-> [credits |-> 0, isAdmin |-> FALSE]]
  /\ openingCredits = 0
  /\ started = [p \in ProjectIds |-> 0]
  /\ InitLocals

Next ==
  \E r \in Runs :
    \/ GetProject(r)
    \/ SetProcessing(r)
    \/ SetEnhancingPrompt(r)
    \/ EnhancePrompt(r)
    \/ SaveEnhancedPrompt(r)
    \/ SetGeneratingImage(r)
    \/ GenerateImage(r)
    \/ UploadImage(r)
    \/ SaveOutputImage(r)
    \/ SetGeneratingVideo78(r)
    \/ AnalyzeGeneratedImage(r)
    \/ SetGeneratingVideo80(r)
    \/ KlingSubmit(r)
    \/ KlingPoll(r)
    \/ SaveOutputVideo(r)
    \/ VideoFailed(r)
    \/ SetCompleted(r)
    \/ CatchFailed(r)

NextKling ==
  \E r \in Runs :
    \/ DirectCall(r)
    \/ KlingSubmit(r)
    \/ KlingCheckpoint(r)
    \/ KlingPoll(r)
    \/ AudioSubmit(r)
    \/ AudioCheckpoint(r)
    \/ AudioPoll(r)
    \/ DirectReturn(r)

\* the creation requests, and the runs they start up to their write of
\* status enhancing_prompt
NextCreate ==
  \E r \in Runs :
    \/ PostProjects(r)
    \/ CreateProject(r)
    \/ UpdateUserCredits(r)
    \/ GetProject(r)
    \/ SetProcessing(r)
    \/ SetEnhancingPrompt(r)

\* the direct calls of the image composer
NextCompose ==
  \E r \in Runs :
    \/ ComposeRequest(r)
    \/ ComposeScan(r)

\* two runs of processProject on image Projects, interleaved at their awaits
NextPair ==
  \E r \in Runs :
    \/ GetProject(r)
    \/ SetProcessing(r)
    \/ SetEnhancingPrompt(r)
    \/ EnhancePrompt(r)
    \/ SaveEnhancedPrompt(r)
    \/ SetGeneratingImage(r)
    \/ GenerateImage(r)
    \/ UploadImage(r)
    \/ SaveOutputImage(r)
    \/ SetCompleted(r)
    \/ CatchFailed(r)

\* one step of a direct call of the video adapter that saves no task id
PollStep(r) ==
  \/ DirectCall(r)
  \/ KlingSubmit(r)
  \/ KlingPoll(r)
  \/ AudioSubmit(r)
  \/ AudioPoll(r)
  \/ DirectReturn(r)

NextPoll == \E r \in Runs : PollStep(r)

Spec == Init /\ [][Next]_vars

SpecStorageFaults == InitStorageFaults /\ [][Next]_vars

SpecKling == InitKling /\ [][NextKling]_vars

SpecCreate == InitCreate /\ [][NextCreate]_vars

SpecCompose == InitCompose /\ [][NextCompose]_vars

SpecPair == InitPair /\ [][NextPair]_vars

SpecPoll == InitPoll /\ [][NextPoll]_vars

\* one step of the request handler of POST /api/projects for the request r
RequestStep(r) == PostProjects(r) \/ CreateProject(r) \/ UpdateUserCredits(r)

\* one step of the part of processProject that SpecCreate follows
RunStep(r) == GetProject(r) \/ SetProcessing(r) \/ SetEnhancingPrompt(r)

\* SpecCreate on an event loop that is never blocked: the continuation of a
\* settled await is run, for the handler and for the run it started
SpecCreateFair ==
  SpecCreate /\ \A r \in Runs : WF_vars(RequestStep(r)) /\ WF_vars(RunStep(r))

\* SpecPoll where every awaited timer and request settles: the sleep of
\* ten seconds ends and each fetch gets a response or rejects, so the call
\* takes its next step
SpecPollFair == SpecPoll /\ \A r \in Runs : WF_vars(PollStep(r))

(***************************************************************************)
(* Vocabulary of the properties.                                           *)
(***************************************************************************)
\* the row of the Project the run works on
Row(r) == projects[projectId[r]]

\* the run was started by POST /api/projects and found its Project
PipelineRun(r) == caller[r] = "processProject" /\ project[r] # NoProject

\* processProject has returned
Returned(r) == caller[r] = "processProject" /\ pc[r] = "done"

\* the status values the run has written, in order
StatusesWritten(r) ==
  LET ws == SelectSeq(writes[r], LAMBDA w : "status" \in DOMAIN w)
  IN [i \in 1..Len(ws) |-> ws[i].status]

Terminal(w) == "status" \in DOMAIN w /\ w.status \in {"completed", "failed"}

\* the run has invoked the adapter fn
Invoked(r, fn) == \E i \in 1..Len(calls[r]) : calls[r][i].fn = fn

\* the stage that follows stage a for content type ct
NextStage(ct, a) ==
  CASE a = "processing" -> "enhancing_prompt"
    [] a = "enhancing_prompt" -> "generating_image"
    [] a = "generating_image" -> IF ct = "video" THEN "generating_video" ELSE "completed"
    [] a = "generating_video" -> "completed"
    [] OTHER -> "none"

\* the nominal cost of one invocation of an adapter
NominalCost(fn) ==
  CASE fn \in {"enhancePromptWithGemini", "enhanceVideoPromptWithGemini"} ->
         GEMINI_PROMPT_ENHANCEMENT
    [] fn = "generateImageWithGemini" -> GEMINI_IMAGE_GENERATION
    [] fn = "enhanceVideoPromptFromGeneratedImage" -> GEMINI_VIDEO_ANALYSIS
    [] fn = "generateVideoWithKling" -> VIDEO_GENERATION
    [] OTHER -> 0

RECURSIVE SumCosts(_)
SumCosts(cs) == IF cs = <<>> THEN 0 ELSE NominalCost(Head(cs).fn) + SumCosts(Tail(cs))

\* generateImageWithGemini was called and threw
ImageThrew(r) ==
  \E i \in 1..Len(calls[r]) :
    calls[r][i].fn = "generateImageWithGemini" /\ calls[r][i].arg.threw

\* generateVideoWithKling was called and threw
VideoThrew(r) == ~videoResult[r].ok /\ videoResult[r].message # NULL

\* the prompt enhancement of Step 1 was called and its Gemini request failed
EnhanceFailed(r) ==
  /\ Len(calls[r]) >= 1
  /\ calls[r][1].fn \in {"enhancePromptWithGemini", "enhanceVideoPromptWithGemini"}
  /\ ~calls[r][1].arg.ok

(***************************************************************************)
(* C1.  The status values a run writes follow the order processing,        *)
(* enhancing_prompt, generating_image, generating_video (video Projects    *)
(* only), completed: the first status written is processing, and each      *)
(* later one repeats the one before, is the next stage for the Project's   *)
(* content type, or is failed.  Nothing but failed is written after        *)
(* failed, and nothing after completed but failed.                         *)
(***************************************************************************)
C1_StatusOrder ==
  \A r \in Runs :
    LET s == StatusesWritten(r)
        ct == IF project[r] = NoProject THEN "none" ELSE project[r].contentType
    IN /\ Len(s) > 0 => s[1] \in {"processing", "failed"}
       /\ \A i \in 1..(Len(s) - 1) :
            \/ s[i + 1] = "failed"
            \/ s[i + 1] = s[i] /\ s[i] = "generating_video"
            \/ s[i + 1] = NextStage(ct, s[i])

\* a video run has gone through every stage and completed
C1_Witness ==
  \E r \in Runs :
    /\ pc[r] = "done"
    /\ StatusesWritten(r) = <<"processing", "enhancing_prompt", "generating_image",
                              "generating_video", "generating_video", "completed">>

(***************************************************************************)
(* C2.  actualCost is written at most once in a run, by the first write    *)
(* that sets a terminal status (completed or failed) and by no other       *)
(* write: the first write that sets status failed carries actualCost.      *)
(***************************************************************************)
C2_CostWrittenWithTerminalStatus ==
  \A r \in Runs :
    LET ws == writes[r]
        firstTerminal(i) == Terminal(ws[i]) /\ \A j \in 1..(i - 1) : ~Terminal(ws[j])
    IN /\ Cardinality({i \in 1..Len(ws) : "actualCost" \in DOMAIN ws[i]}) <= 1
       /\ \A i \in 1..Len(ws) : firstTerminal(i) <=> "actualCost" \in DOMAIN ws[i]

(***************************************************************************)
(* C3.  The actualCost a run writes is the sum of the nominal costs of     *)
(* the adapter invocations it attempted, whatever their outcomes.          *)
(***************************************************************************)
C3_CostIsAttemptBased ==
  \A r \in Runs :
    \A i \in 1..Len(writes[r]) :
      "actualCost" \in DOMAIN writes[r][i] =>
        writes[r][i].actualCost = SumCosts(calls[r])

\* the video generator threw, and the cost of all four invocations was
\* written
C3_Witness ==
  \E r \in Runs :
    /\ Returned(r)
    /\ VideoThrew(r)
    /\ Row(r).actualCost = GEMINI_PROMPT_ENHANCEMENT + GEMINI_IMAGE_GENERATION
                           + GEMINI_VIDEO_ANALYSIS + VIDEO_GENERATION

C5_ImageFailureIsFatal ==
  \A r \in Runs :
    (PipelineRun(r) /\ ImageThrew(r)) =>
      /\ \A i \in 1..Len(writes[r]) : "outputImageUrl" \notin DOMAIN writes[r][i]
      /\ Row(r).outputImageUrl = NULL
      /\ pc[r] \in {"CatchFailed", "done"}
      /\ pc[r] = "done" =>
           /\ Row(r).status = "failed"
           /\ Row(r).errorMessage # NULL
           /\ Len(Row(r).errorMessage) > 0

\* the image composer threw and the run has ended
C5_Witness ==
  \E r \in Runs : Returned(r) /\ ImageThrew(r) /\ Row(r).status = "failed"

AudioFailed(r) ==
  /\ Invoked(r, "addAudioToVideo")
  /\ pc[r] \in {"KlingReturned", "done"}
  /\ videoWithAudioUrl[r] = NULL

C7_AudioFailureKeepsSilentVideo ==
  \A r \in Runs :
    AudioFailed(r) =>
      /\ videoUrl[r] # NULL
      /\ videoResult[r].ok
      /\ videoResult[r].url = videoUrl[r]

\* the audio job was created and polled, and failed
C7_Witness ==
  \E r \in Runs : AudioFailed(r) /\ audioChecks[r] > 0 /\ pc[r] = "done"

(***************************************************************************)
(* C8.  When the Gemini request of the prompt enhancement fails, the       *)
(* enhanced prompt is a fallback that is not empty and ends with the user  *)
(* description, the run goes on to write status generating_image, and the  *)
(* image composer is invoked with that prompt.                             *)
(***************************************************************************)
C8_EnhancementFallback ==
  \A r \in Runs :
    (PipelineRun(r) /\ EnhanceFailed(r)) =>
      /\ enhancedPrompt[r] # NULL
      /\ Len(enhancedPrompt[r]) > 0
      /\ Contains(enhancedPrompt[r],
                  OrElse(project[r].description,
                         IF project[r].contentType = "video"
                         THEN "CGI video generation" ELSE "CGI image generation"))
      /\ pc[r] \notin {"SaveEnhancedPrompt", "SetGeneratingImage"} =>
           /\ \E i \in 1..Len(writes[r]) :
                /\ "status" \in DOMAIN writes[r][i]
                /\ writes[r][i].status = "generating_image"
           /\ pc[r] # "GenerateImage" =>
                \E i \in 1..Len(calls[r]) :
                  /\ calls[r][i].fn = "generateImageWithGemini"
                  /\ calls[r][i].arg.prompt = enhancedPrompt[r]

\* the enhancement failed and the image composer has been invoked
C8_Witness ==
  \E r \in Runs :
    PipelineRun(r) /\ EnhanceFailed(r) /\ Invoked(r, "generateImageWithGemini")

(***************************************************************************)
(* C9.  When every status check of the video task has said still running,  *)
(* the poll loop makes maxAttempts checks and then throws an error that    *)
(* mentions the timeout; the run ends with status failed and an            *)
(* errorMessage that mentions the timeout.                                 *)
(***************************************************************************)
C9_PollTimeout ==
  \A r \in Runs :
    (PipelineRun(r) /\ onlyRunning[r] /\ statusChecks[r] > 0) =>
      /\ statusChecks[r] <= maxAttempts
      /\ pc[r] # "KlingPoll" =>
           /\ statusChecks[r] = maxAttempts
           /\ VideoThrew(r)
           /\ Contains(videoResult[r].message, "timed out")
      /\ pc[r] = "done" =>
           /\ Row(r).status = "failed"
           /\ Contains(Row(r).errorMessage, "timed out")

\* a run whose video task never finished has ended
C9_Witness ==
  \E r \in Runs : Returned(r) /\ onlyRunning[r] /\ statusChecks[r] = maxAttempts

(***************************************************************************)
(* C10.  In a run of processProject, whenever a status check of the video  *)
(* task has been made, the task id is stored in the Project's              *)
(* klingVideoTaskId.                                                       *)
(***************************************************************************)
C10_TaskIdStoredBeforePolling ==
  \A r \in Runs :
    (PipelineRun(r) /\ statusChecks[r] > 0) =>
      Row(r).klingVideoTaskId = taskId[r]


(***************************************************************************)
(* C11.  When a run over a video Project with includeAudio true has        *)
(* returned and every adapter it invoked succeeded, the Project has        *)
(* status completed and progress 100, the audio augmenter was invoked and  *)
(* outputVideoUrl is the URL the audio task returned, not the URL of the   *)
(* silent video.                                                           *)
(***************************************************************************)
\* the adapter invocation c went through
AdapterSucceeded(c) ==
  CASE c.fn = "generateImageWithGemini" -> ~c.arg.threw
    [] c.fn \in {"enhancePromptWithGemini", "enhanceVideoPromptWithGemini",
                 "enhanceVideoPromptFromGeneratedImage"} -> c.arg.ok
    [] OTHER -> TRUE

\* every Gemini adapter the run invoked and the upload succeeded
ImageStagesSucceeded(r) ==
  /\ \A i \in 1..Len(calls[r]) : AdapterSucceeded(calls[r][i])
  /\ imageUrl[r] # NULL

\* a video run in which every adapter and the upload succeeded
AllSucceeded(r) == ImageStagesSucceeded(r) /\ videoResult[r].ok

VideoStageEntered(r, i) ==
  \E j \in 1..(i - 1) :
    "status" \in DOMAIN writes[r][j] /\ writes[r][j].status = "generating_video"

ProgressWritten(r) ==
  LET ws == SelectSeq(writes[r], LAMBDA w : "progress" \in DOMAIN w)
  IN [i \in 1..Len(ws) |-> ws[i].progress]

C13_ProgressMonotonic ==
  \A r \in Runs :
    LET ps == ProgressWritten(r)
    IN /\ \A i \in 1..Len(ps) : ps[i] \in 0..100
       /\ \A i \in 1..(Len(ps) - 1) : ps[i] <= ps[i + 1]
       /\ PipelineRun(r) => Row(r).progress \in 0..100
       /\ (PipelineRun(r) /\ Len(ps) > 0) => Row(r).progress = ps[Len(ps)]

\* a run that wrote progress up to the video stage has failed
C13_Witness ==
  \E r \in Runs :
    /\ Returned(r) /\ PipelineRun(r)
    /\ Row(r).status = "failed"
    /\ Len(ProgressWritten(r)) >= 6


(***************************************************************************)
(* C14.  When a run over a stored Project has ended, by returning or by    *)
(* an exception escaping it, the status of the Project is completed or     *)
(* failed, and a failed Project has an errorMessage.                       *)
(***************************************************************************)
\* processProject has returned, or its promise has rejected
Ended(r) == caller[r] = "processProject" /\ pc[r] \in {"done", "rejected"}

C14_EveryRunEndsTerminal ==
  \A r \in Runs :
    (PipelineRun(r) /\ Ended(r)) =>
      /\ Row(r).status \in {"completed", "failed"}
      /\ Row(r).status = "failed" => Row(r).errorMessage # NULL

(***************************************************************************)
(* C15.  A write that sets status failed carries nothing but status,       *)
(* errorMessage and actualCost, so the Project keeps the outputImageUrl    *)
(* and the enhancedPrompt the run wrote before the failure; and after a    *)
(* run has written status failed it writes no other status.                *)
(***************************************************************************)
\* the run has written the field f
Written(r, f) == \E i \in 1..Len(writes[r]) : f \in DOMAIN writes[r][i]

SubmissionFailed(o) == ~o.ok \/ ~o.hasTaskId

C16_FailedSubmissionNeverPolled ==
  \A r \in Runs :
    \A i \in 1..Len(submitted[r]) :
      SubmissionFailed(submitted[r][i]) =>
        IF submitted[r][i].job = "video"
        THEN /\ statusChecks[r] = 0
             /\ taskId[r] = NULL
             /\ VideoThrew(r)
             /\ Contains(videoResult[r].message, "Kling AI API error")
             /\ ~Invoked(r, "addAudioToVideo")
        ELSE /\ audioChecks[r] = 0
             /\ soundTaskId[r] = NULL
             /\ videoWithAudioUrl[r] = NULL

\* a video submission was answered with success but without a task id, and
\* the call has ended
C16_Witness ==
  \E r \in Runs :
    /\ pc[r] = "done"
    /\ Len(submitted[r]) = 1
    /\ submitted[r][1].job = "video"
    /\ submitted[r][1].ok /\ ~submitted[r][1].hasTaskId

(***************************************************************************)
(* C17.  A transient HTTP error on a status check that follows successful  *)
(* status checks does not abort polling: when every status check so far    *)
(* was answered with a still-running status, the next status check does    *)
(* not end the video generation with a status-check failure.               *)
(***************************************************************************)
\* generateVideoWithKling has given up on HTTP errors of the status check
GaveUpOnStatusErrors(r) ==
  /\ pc[r] = "KlingReturned"
  /\ VideoThrew(r)
  /\ Contains(videoResult[r].message, "Kling AI status check failed")

C17_TransientAfterSuccessRetried ==
  [][\A r \in Runs :
       (pc[r] = "KlingPoll" /\ onlyRunning[r] /\ statusChecks[r] > 0) =>
         ~GaveUpOnStatusErrors(r)']_vars

(***************************************************************************)
(* C18.  Every write of errorMessage also sets status failed; a Project    *)
(* with an errorMessage has status failed, and a completed Project has no  *)
(* errorMessage.                                                           *)
(***************************************************************************)
C18_ErrorMessageOnlyWhenFailed ==
  \A r \in Runs :
    /\ \A i \in 1..Len(writes[r]) :
         "errorMessage" \in DOMAIN writes[r][i] =>
           /\ "status" \in DOMAIN writes[r][i]
           /\ writes[r][i].status = "failed"
    /\ PipelineRun(r) =>
         /\ Row(r).errorMessage # NULL => Row(r).status = "failed"
         /\ Row(r).status = "completed" => Row(r).errorMessage = NULL

\* a run has stored an error message
C18_Witness ==
  \E r \in Runs :
    /\ Returned(r) /\ PipelineRun(r)
    /\ Row(r).errorMessage # NULL
    /\ Written(r, "errorMessage")

(***************************************************************************)
(* C19.  When a run over an image Project has returned and the prompt      *)
(* enhancement, the image composition and the upload all succeeded, its    *)
(* writes were processing/10, enhancing_prompt/25, the enhanced prompt/50, *)
(* generating_image/60, the image URL/75 and completed/100 with the cost,  *)
(* and the Project has an outputImageUrl, no outputVideoUrl and an         *)
(* actualCost of GEMINI_PROMPT_ENHANCEMENT + GEMINI_IMAGE_GENERATION.      *)
(***************************************************************************)
C19_ImageHappyPath ==
  \A r \in Runs :
    (Returned(r) /\ PipelineRun(r) /\ project[r].contentType = "image"
       /\ ImageStagesSucceeded(r)) =>
      /\ writes[r] =
           << [status |-> "processing", progress |-> 10],
              [status |-> "enhancing_prompt", progress |-> 25],
              [enhancedPrompt |-> enhancedPrompt[r], progress |-> 50],
              [status |-> "generating_image", progress |-> 60],
              [outputImageUrl |-> imageUrl[r], progress |-> 75],
              [status |-> "completed", progress |-> 100,
               actualCost |-> GEMINI_PROMPT_ENHANCEMENT + GEMINI_IMAGE_GENERATION] >>
      /\ Row(r).status = "completed"
      /\ Row(r).progress = 100
      /\ Row(r).outputImageUrl # NULL
      /\ Row(r).outputVideoUrl = NULL
      /\ Row(r).actualCost = GEMINI_PROMPT_ENHANCEMENT + GEMINI_IMAGE_GENERATION

\* an image run in which everything succeeded has returned
C19_Witness ==
  \E r \in Runs :
    /\ Returned(r) /\ PipelineRun(r) /\ project[r].contentType = "image"
    /\ ImageStagesSucceeded(r)
    /\ Len(calls[r]) = 2
    /\ Row(r).outputImageUrl = CloudinaryUrl

(***************************************************************************)
(* C20.  Whatever the interleaving of the creation requests,               *)
(* processProject is invoked at most once for a Project id; it is invoked  *)
(* with the id of a Project that a request has just stored and answered    *)
(* with 200, and two runs never work on the same Project.                  *)
(***************************************************************************)
\* processProject has been invoked for the request r
RunStarted(r) ==
  pc[r] \notin {"idle", "PostProjects", "CreateProject", "UpdateUserCredits", "responded"}

C20_OneRunPerProject ==
  /\ \A p \in ProjectIds :
       /\ started[p] <= 1
       /\ started[p] = 1 =>
            /\ projects[p] # NoProject
            /\ \E r \in Runs :
                 RunStarted(r) /\ projectId[r] = p /\ res[r].status = 200
  /\ \A r1, r2 \in Runs :
       (r1 # r2 /\ RunStarted(r1) /\ RunStarted(r2)) => projectId[r1] # projectId[r2]

\* two requests have each created a Project and both runs are under way
C20_Witness ==
  /\ \A p \in ProjectIds : started[p] = 1
  /\ \A r \in Runs : pc[r] = "EnhancePrompt"

(***************************************************************************)
(* C21.  Once createProject has stored a Project, a run is eventually      *)
(* started for it: no created Project stays in pending forever.            *)
(***************************************************************************)
C21_CreatedProjectGetsRun ==
  \A p \in ProjectIds : [](projects[p] # NoProject => <>(started[p] > 0))

(***************************************************************************)
(* C22.  Within one run each adapter (prompt enhancement, image            *)
(* composition, video-prompt re-analysis, video generation) is invoked at  *)
(* most once, and after an adapter has thrown no adapter is invoked again  *)
(* in that run.                                                            *)
(***************************************************************************)
\* the stages of processProject, by the adapters that serve them
Stages ==
  { {"enhancePromptWithGemini", "enhanceVideoPromptWithGemini"},
    {"generateImageWithGemini"},
    {"enhanceVideoPromptFromGeneratedImage"},
    {"generateVideoWithKling"} }

\* how many times the run has invoked an adapter of the stage
Invocations(r, stage) == Cardinality({i \in 1..Len(calls[r]) : calls[r][i].fn \in stage})

C22_NoStageRetried ==
  \A r \in Runs :
    /\ \A stage \in Stages : Invocations(r, stage) <= 1
    /\ posts[r] <= 1
    /\ \A i \in 1..Len(calls[r]) :
         (calls[r][i].fn = "generateImageWithGemini" /\ calls[r][i].arg.threw) =>
           i = Len(calls[r])
    /\ VideoThrew(r) =>
         /\ Len(calls[r]) > 0
         /\ calls[r][Len(calls[r])].fn = "generateVideoWithKling"

\* the image composer threw, and the run has ended with that invocation as
\* its last
C22_Witness ==
  \E r \in Runs :
    /\ Returned(r) /\ ImageThrew(r)
    /\ Len(calls[r]) = 2
    /\ calls[r][2].fn = "generateImageWithGemini"

(***************************************************************************)
(* C23.  The save of klingVideoTaskId or klingSoundTaskId is best-effort:  *)
(* whether the write lands or throws, the step changes nothing of the      *)
(* adapter but its position, which moves on to the poll loop; and a call   *)
(* whose save threw does not end before the task has been polled, and      *)
(* never ends with the storage error.                                      *)
(***************************************************************************)
\* the save of the video task id was attempted and threw
VideoCheckpointThrew(r) ==
  /\ recovery[r] /\ taskId[r] # NULL
  /\ pc[r] # "KlingCheckpoint"
  /\ ~Written(r, "klingVideoTaskId")

\* the save of the audio task id was attempted and threw
AudioCheckpointThrew(r) ==
  /\ recovery[r] /\ soundTaskId[r] # NULL
  /\ pc[r] # "AudioCheckpoint"
  /\ ~Written(r, "klingSoundTaskId")

\* generateVideoWithKling has returned or thrown
KlingEnded(r) == pc[r] \in {"KlingReturned", "done"}

C23_CheckpointBestEffort ==
  /\ [](\A r \in Runs :
          /\ VideoCheckpointThrew(r) =>
               /\ KlingEnded(r) => statusChecks[r] > 0
               /\ VideoThrew(r) => ~Contains(videoResult[r].message, StorageError)
          /\ AudioCheckpointThrew(r) =>
               /\ KlingEnded(r) => audioChecks[r] > 0
               /\ VideoThrew(r) => ~Contains(videoResult[r].message, StorageError))
  /\ [][\A r \in Runs :
         /\ (pc[r] = "KlingCheckpoint" /\ pc'[r] # pc[r]) =>
              pc'[r] = "KlingPoll" /\ UNCHANGED klingVars
         /\ (pc[r] = "AudioCheckpoint" /\ pc'[r] # pc[r]) =>
              pc'[r] = "AudioPoll" /\ UNCHANGED klingVars]_vars

\* the save of the video task id threw, and the call has returned the video
\* with audio
C23_Witness ==
  \E r \in Runs :
    /\ pc[r] = "done"
    /\ VideoCheckpointThrew(r)
    /\ videoResult[r].ok
    /\ videoResult[r].url = videoWithAudioUrl[r]

(***************************************************************************)
(* C24.  When the re-analysis of the composed image has failed, the run    *)
(* goes on, and the prompt it passes to the video generator is the         *)
(* enhanced prompt of the image stage, the string stored as                *)
(* enhancedPrompt.                                                         *)
(***************************************************************************)
\* enhanceVideoPromptFromGeneratedImage was called and its request failed
ReanalysisFailed(r) ==
  \E i \in 1..Len(calls[r]) :
    calls[r][i].fn = "enhanceVideoPromptFromGeneratedImage" /\ ~calls[r][i].arg.ok

C24_ReanalysisFallsBackToImagePrompt ==
  \A r \in Runs :
    (PipelineRun(r) /\ ReanalysisFailed(r)) =>
      /\ pc[r] # "CatchFailed" \/ Invoked(r, "generateVideoWithKling")
      /\ finalVideoPrompt[r] = enhancedPrompt[r]
      /\ Row(r).enhancedPrompt = enhancedPrompt[r]
      /\ \A i \in 1..Len(calls[r]) :
           calls[r][i].fn = "generateVideoWithKling" =>
             calls[r][i].arg = enhancedPrompt[r]

(***************************************************************************)
(* C25.  A missing credential makes the run end failed without a retry.    *)
(* With KLING_API_KEY missing a video run sends nothing to the video       *)
(* provider, and one that reaches the video stage ends failed there with   *)
(* the error that names the key.  With the Gemini key missing no image is  *)
(* produced or stored, the video stage is not entered, and the run ends    *)
(* failed at the image stage.                                              *)
(***************************************************************************)
\* the last status the run wrote before its first failed
StageOfFailure(r) ==
  LET s == StatusesWritten(r)
      first == CHOOSE i \in 1..Len(s) : s[i] = "failed" /\ \A j \in 1..(i - 1) : s[j] # "failed"
  IN IF first = 1 THEN "none" ELSE s[first - 1]

C25_MissingCredentialFails ==
  \A r \in Runs :
    PipelineRun(r) =>
      /\ (~klingKey /\ project[r].contentType = "video") =>
           /\ posts[r] = 0 /\ statusChecks[r] = 0
           /\ Invocations(r, {"generateVideoWithKling"}) <= 1
           /\ Returned(r) => Row(r).status = "failed"
           /\ (Returned(r) /\ Invoked(r, "generateVideoWithKling")) =>
                /\ StageOfFailure(r) = "generating_video"
                /\ Contains(Row(r).errorMessage, "KLING_API_KEY environment variable is required")
      /\ ~geminiKey =>
           /\ geminiImageResult[r] = NoImage
           /\ Row(r).outputImageUrl = NULL
           /\ Invocations(r, {"generateImageWithGemini"}) <= 1
           /\ ~Invoked(r, "enhanceVideoPromptFromGeneratedImage")
           /\ ~Invoked(r, "generateVideoWithKling")
           /\ Returned(r) =>
                /\ Row(r).status = "failed"
                /\ StageOfFailure(r) = "generating_image"
                /\ Contains(Row(r).errorMessage, "Failed to generate image with Gemini")

\* a video run without KLING_API_KEY has reached the video generator and
\* ended failed
C25_Witness ==
  \E r \in Runs :
    /\ Returned(r) /\ PipelineRun(r) /\ ~klingKey
    /\ Invoked(r, "generateVideoWithKling")
    /\ Row(r).status = "failed"
    /\ posts[r] = 0

(***************************************************************************)
(* C26.  A run changes storage only through updateProject on its own       *)
(* Project id, and only in the fields status, progress, enhancedPrompt,    *)
(* outputImageUrl, outputVideoUrl, klingVideoTaskId, klingSoundTaskId,     *)
(* errorMessage and actualCost: no step of a run creates or deletes a      *)
(* Project, changes another Project, changes the inputs or creditsUsed of  *)
(* its own, or changes a user.                                             *)
(***************************************************************************)
\* the columns of projects that processProject and the video adapter write
RunFields ==
  {"status", "progress", "enhancedPrompt", "outputImageUrl", "outputVideoUrl",
   "klingVideoTaskId", "klingSoundTaskId", "errorMessage", "actualCost"}

\* the run r takes the step
StepOf(r) == pc'[r] # pc[r] \/ writes'[r] # writes[r] \/ attempts'[r] # attempts[r]

StartsRun(r) == ~RunStarted(r) /\ RunStarted(r)'

C27_CreditsDeductedOnce ==
  [][/\ \A r \in Runs :
          (StartsRun(r) /\ ~user[r].isAdmin) =>
            users'[ReqUser].credits =
              users[ReqUser].credits - projects'[projectId'[r]].creditsUsed
     /\ users' # users => \E r \in Runs : StartsRun(r)]_vars

(***************************************************************************)
(* C28.  When a status check has reported completed or success, the video  *)
(* generator returns the first non-empty of output.video_url,              *)
(* works[0].video.resource_without_watermark and works[0].video.resource,  *)
(* and throws a video-URL-missing error when all three are empty; when a   *)
(* status check has reported failed or error it throws a                   *)
(* generation-failed error; and after such a report no further status      *)
(* check is made.                                                          *)
(***************************************************************************)
\* the first of the three places of the output that is not empty
FirstNonEmpty(o) ==
  LET places == <<o.video_url, o.resource_without_watermark, o.resource>>
      filled == {i \in 1..3 : places[i] # NULL /\ places[i] # ""}
  IN IF filled = {} THEN NULL
     ELSE places[CHOOSE i \in filled : \A j \in filled : i <= j]

C28_StatusReportEndsPolling ==
  /\ [](\A r \in Runs :
          /\ reported[r].ended = "completed" =>
               IF FirstNonEmpty(reported[r].output) = NULL
               THEN /\ VideoThrew(r)
                    /\ Contains(videoResult[r].message, "Video URL not found")
               ELSE /\ videoResult[r].ok
                    /\ videoResult[r].url = FirstNonEmpty(reported[r].output)
                    /\ Returned(r) =>
                         Row(r).outputVideoUrl = FirstNonEmpty(reported[r].output)
          /\ reported[r].ended = "failed" =>
               /\ VideoThrew(r)
               /\ Contains(videoResult[r].message, "Kling AI generation failed"))
  /\ [][\A r \in Runs :
         reported[r] # NoReport =>
           statusChecks'[r] = statusChecks[r] /\ posts'[r] = posts[r]]_vars

\* the task was reported completed with no video_url and with both
\* resources, and the run has stored the one without watermark
C28_Witness ==
  \E r \in Runs :
    /\ Returned(r)
    /\ reported[r].ended = "completed"
    /\ reported[r].output.video_url = NULL
    /\ reported[r].output.resource # NULL
    /\ Row(r).outputVideoUrl = VideoBase \o "/resource_without_watermark.mp4"

(***************************************************************************)
(* C29.  addAudioToVideo is invoked only after a status check of the       *)
(* video task has reported completion with a video URL; it is given the    *)
(* task id of that video task, not the video URL; and it is invoked at     *)
(* most once per video job, with at most one audio job submitted.          *)
(***************************************************************************)
\* the audio jobs the call has submitted
AudioSubmissions(r) ==
  {i \in 1..Len(submitted[r]) : submitted[r][i].job = "audio"}

C29_AudioAfterCompletedVideo ==
  \A r \in Runs :
    /\ Invocations(r, {"addAudioToVideo"}) <= 1
    /\ Cardinality(AudioSubmissions(r)) <= 1
    /\ AudioSubmissions(r) # {} => Invoked(r, "addAudioToVideo")
    /\ \A i \in 1..Len(calls[r]) :
         calls[r][i].fn = "addAudioToVideo" =>
           /\ reported[r].ended = "completed"
           /\ FirstNonEmpty(reported[r].output) # NULL
           /\ videoUrl[r] = FirstNonEmpty(reported[r].output)
           /\ taskId[r] # NULL
           /\ calls[r][i].arg = taskId[r]
           /\ calls[r][i].arg # videoUrl[r]

\* the audio step was entered after the video had completed, and the call
\* has returned the video with audio
C29_Witness ==
  \E r \in Runs :
    /\ pc[r] = "done"
    /\ Invoked(r, "addAudioToVideo")
    /\ audioChecks[r] > 0
    /\ videoWithAudioUrl[r] # NULL
    /\ videoResult[r].ok /\ videoResult[r].url = videoWithAudioUrl[r]

(***************************************************************************)
(* C30.  The image composer returns the image of the first part, in        *)
(* order, that holds inline image data or whose file reference is fetched  *)
(* successfully; a file reference whose fetch fails is passed over; when   *)
(* no part yields image data, or there is no candidate, the composer       *)
(* throws; and it never returns a result without image data.               *)
(***************************************************************************)
\* the parts of the response that yield image data
Yielding(response) ==
  {i \in 1..Len(response.parts) : response.parts[i] \in {"inlineImage", "fileFetched"}}

\* the direct call of the composer has returned or thrown
Composed(r) == pc[r] = "done" /\ imageResponse[r] # NoImageResponse

\* the composer threw
ComposeThrew(r) == Composed(r) /\ error[r] # NULL

C30_FirstImagePartReturned ==
  \A r \in Runs :
    Composed(r) =>
      LET response == imageResponse[r]
          hits == Yielding(response)
      IN IF response.kind = "candidates" /\ hits # {}
         THEN LET first == CHOOSE i \in hits : \A j \in hits : i <= j
              IN /\ ~ComposeThrew(r)
                 /\ geminiImageResult[r].base64 =
                      IF response.parts[first] = "inlineImage"
                      THEN "inline image bytes" ELSE "fetched image bytes"
                 /\ geminiImageResult[r].mimeType # NULL
         ELSE /\ ComposeThrew(r)
              /\ StartsWith(error[r], "Failed to generate image with Gemini: ")
              /\ geminiImageResult[r] = NoImage

\* the fetch of the first part's file failed, and the inline image of the
\* second part was returned
C30_Witness ==
  \E r \in Runs :
    /\ Composed(r) /\ ~ComposeThrew(r)
    /\ imageResponse[r].parts = <<"fileFetchFails", "inlineImage">>
    /\ geminiImageResult[r].base64 = "inline image bytes"

(***************************************************************************)
(* C31.  Runs for different Projects are independent.  While two runs over *)
(* different Project ids are interleaved, a step of one run changes        *)
(* neither the row of the other Project nor a local of the other run; the  *)
(* row of each Project is the row its run read with the writes of that run *)
(* alone applied in order; each cost total is the sum of the nominal costs *)
(* of the adapters that run invoked; and the actualCost a returned run     *)
(* left is that sum.  So status, outputs and actualCost of a Project are   *)
(* what its run produces alone.                                            *)
(***************************************************************************)
\* the row after the writes ws, applied in order
RECURSIVE Replay(_, _)
Replay(row, ws) ==
  IF ws = <<>> THEN row ELSE Replay(ApplyUpdates(row, Head(ws)), Tail(ws))

\* the locals of one call of processProject
RunLocals(r) ==
  <<pc[r], projectId[r], project[r], totalCostMillicents[r], enhancedPrompt[r],
    geminiImageResult[r], imageUrl[r], finalVideoPrompt[r], error[r], writes[r],
    calls[r]>>

\* the two runs work on different Projects
DifferentProjects == \A r, q \in Runs : r # q => projectId[r] # projectId[q]

C31_RunsIndependent ==
  /\ [](DifferentProjects =>
          \A r \in Runs :
            /\ PipelineRun(r) => Row(r) = Replay(project[r], writes[r])
            /\ totalCostMillicents[r] = SumCosts(calls[r])
            /\ Returned(r) => Row(r).actualCost = SumCosts(calls[r]))
  /\ [][DifferentProjects =>
          \A r \in Runs : StepOf(r) =>
            \A q \in Runs \ {r} :
              /\ RunLocals(q)' = RunLocals(q)
              /\ projects'[projectId[q]] = projects[projectId[q]]]_vars

\* two interleaved runs over different Projects have returned, one with
\* its image stored and the cost of two adapters, the other failed in the
\* image composition
C31_Witness ==
  /\ DifferentProjects
  /\ \A r \in Runs : Returned(r) /\ Len(writes[r]) >= 5
  /\ projects["p1"].status = "completed"
  /\ projects["p1"].outputImageUrl = CloudinaryUrl
  /\ projects["p1"].actualCost = GEMINI_PROMPT_ENHANCEMENT + GEMINI_IMAGE_GENERATION
  /\ projects["p1"].description = "red sofa"
  /\ projects["p2"].status = "failed"
  /\ projects["p2"].outputImageUrl = NULL
  /\ projects["p2"].errorMessage # NULL
  /\ projects["p2"].description = NULL

(***************************************************************************)
(* C32.  processProject neither looks at the status of the Project nor     *)
(* takes a lock.  A call that finds the row goes on to its first write     *)
(* whatever the status of the row; that write leaves status processing     *)
(* and progress 10 whatever they were; and every write of a run lands in   *)
(* the row of its Project id, also when another run works on the same id.  *)
(* With a second call for a Project whose run is in progress or over, the  *)
(* stored status and progress therefore move backwards.                    *)
(***************************************************************************)
\* the two runs work on the same Project
SameProject == \A r, q \in Runs : projectId[r] = projectId[q]

C32_SecondRunRestarts ==
  [][\A r \in Runs :
       /\ (pc[r] = "GetProject" /\ pc'[r] # pc[r] /\ Row(r) # NoProject) =>
            pc'[r] = "SetProcessing"
       /\ (pc[r] = "SetProcessing" /\ writes'[r] # writes[r]) =>
            /\ Row(r)'.status = "processing"
            /\ Row(r)'.progress = 10
       /\ writes'[r] # writes[r] =>
            Row(r)' = ApplyUpdates(Row(r), writes'[r][Len(writes'[r])])]_vars

\* the first run has completed the Project and returned; the second run
\* for the same Project then made its first write: the row is back at
\* processing and progress 10, beside the output of the first run
C32_Witness ==
  /\ SameProject
  /\ \E r \in Runs, q \in Runs :
       /\ r # q
       /\ Returned(r)
       /\ writes[r][Len(writes[r])].status = "completed"
       /\ writes[r][Len(writes[r])].progress = 100
       /\ Len(writes[q]) = 1
       /\ pc[q] = "SetEnhancingPrompt"
       /\ Row(q).status = "processing"
       /\ Row(q).progress = 10
       /\ Row(q).outputImageUrl = CloudinaryUrl

(***************************************************************************)
(* C33.  Both poll loops terminate whatever the status checks answer.      *)
(* Every iteration makes one status check and adds one to the attempt      *)
(* counter of its loop; the video loop makes at most maxAttempts (60)      *)
(* checks and the audio loop at most 30; a call that is in the video loop  *)
(* eventually leaves it with a video URL or a thrown error, and a call     *)
(* that is in the audio loop eventually leaves it, with the URL it found   *)
(* or, its error caught, with the URL of the silent video.                 *)
(***************************************************************************)
\* the video loop has been left: a URL was found or an error thrown
VideoLoopEnded(r) == pc[r] # "KlingPoll" /\ (videoUrl[r] # NULL \/ VideoThrew(r))

\* the audio loop has been left and the video adapter has returned a URL
AudioLoopEnded(r) == KlingEnded(r) /\ videoResult[r].ok

C33_PollLoopsTerminate ==
  /\ [](\A r \in Runs :
          /\ statusChecks[r] <= maxAttempts
          /\ audioChecks[r] <= audioMaxAttempts
          /\ attempts[r] = statusChecks[r]
          /\ audioAttempts[r] = audioChecks[r]
          /\ (statusChecks[r] > 0 /\ pc[r] \notin {"KlingPoll"}) => VideoLoopEnded(r)
          /\ (audioChecks[r] > 0 /\ pc[r] # "AudioPoll") => AudioLoopEnded(r))
  /\ [][\A r \in Runs :
          /\ statusChecks'[r] \in {statusChecks[r], statusChecks[r] + 1}
          /\ audioChecks'[r] \in {audioChecks[r], audioChecks[r] + 1}
          /\ (pc[r] = "KlingPoll" /\ StepOf(r)) => attempts'[r] = attempts[r] + 1
          /\ (pc[r] = "AudioPoll" /\ (pc'[r] # pc[r] \/ audioAttempts'[r] # audioAttempts[r])) =>
               audioAttempts'[r] = audioAttempts[r] + 1]_vars
  /\ \A r \in Runs : (pc[r] = "KlingPoll") ~> VideoLoopEnded(r)
  /\ \A r \in Runs : (pc[r] = "AudioPoll") ~> AudioLoopEnded(r)

\* the video loop has used all its checks and thrown the timeout
C33_Witness ==
  \E r \in Runs :
    /\ statusChecks[r] = maxAttempts
    /\ ~onlyRunning[r]
    /\ VideoThrew(r)
    /\ Contains(videoResult[r].message, "timed out")

(***************************************************************************)
(* C34.  With concurrent creation requests of one user who is not the      *)
(* admin, the balance of the user is never negative, and when every        *)
(* request has been answered and no storage call has thrown, the balance   *)
(* is the balance before the requests minus the sum of creditsUsed of the  *)
(* Projects that were created.                                             *)
(***************************************************************************)
\* every request has been answered
RequestsFinished ==
  \A r \in Runs : pc[r] \notin {"PostProjects", "CreateProject", "UpdateUserCredits"}

\* a request was answered 500: a storage call of the handler threw
StorageCallThrew == \E r \in Runs : res[r].status = 500

\* the sum of creditsUsed of the Projects in storage
RECURSIVE SumCreditsUsed(_)
SumCreditsUsed(ps) ==
  IF ps = {} THEN 0
  ELSE LET p == CHOOSE q \in ps : TRUE
       IN (IF projects[p] = NoProject THEN 0 ELSE projects[p].creditsUsed)
            + SumCreditsUsed(ps \ {p})

C34_BalanceAccountsForProjects ==
  (users[ReqUser] # NoUser /\ ~users[ReqUser].isAdmin) =>
    /\ users[ReqUser].credits >= 0
    /\ (RequestsFinished /\ ~StorageCallThrew) =>
         users[ReqUser].credits = openingCredits - SumCreditsUsed(ProjectIds)

(***************************************************************************)
(* C35.  VIDEO_GENERATION is charged exactly once for a run that has       *)
(* entered its video stage, that is, has called generateVideoWithKling:    *)
(* until the call and the write of outputVideoUrl are over the run has     *)
(* not been charged for the video, and from then on it has been charged    *)
(* VIDEO_GENERATION once, whether the adapter returned, threw before it    *)
(* submitted anything (image URL refused, KLING_API_KEY missing) or threw  *)
(* later, and whether the write of outputVideoUrl landed or threw.  A run  *)
(* that never called the adapter is never charged for it, and the          *)
(* actualCost a video run leaves after the call includes the charge.       *)
(***************************************************************************)
\* the adapters the run invoked, the video generator left out
OtherCalls(r) == SelectSeq(calls[r], LAMBDA c : c.fn # "generateVideoWithKling")

\* what the cost total holds beyond the charges of the other adapters
ChargedForVideo(r) == totalCostMillicents[r] - SumCosts(OtherCalls(r))

\* the inner try block of the video stage, finally included, is over
VideoTryOver(r) ==
  /\ Invoked(r, "generateVideoWithKling")
  /\ pc[r] \notin {"KlingSubmit", "KlingPoll", "KlingReturned"}

\* the adapter threw before it sent a request to the provider
ThrewBeforeSubmitting(r) == VideoThrew(r) /\ posts[r] = 0

\* the adapter returned a video and the write of its URL threw
VideoUrlWriteThrew(r) ==
  VideoTryOver(r) /\ videoResult[r].ok /\ ~Written(r, "outputVideoUrl")

C35_VideoChargedOnce ==
  \A r \in Runs :
    PipelineRun(r) =>
      /\ ChargedForVideo(r) = IF VideoTryOver(r) THEN VIDEO_GENERATION ELSE 0
      /\ (VideoTryOver(r) /\ (ThrewBeforeSubmitting(r) \/ VideoUrlWriteThrew(r))) =>
           totalCostMillicents[r] =
             GEMINI_PROMPT_ENHANCEMENT + GEMINI_IMAGE_GENERATION
             + GEMINI_VIDEO_ANALYSIS + VIDEO_GENERATION
      /\ (Returned(r) /\ Invoked(r, "generateVideoWithKling")) =>
           Row(r).actualCost = SumCosts(OtherCalls(r)) + VIDEO_GENERATION

\* the video was generated, the write of outputVideoUrl threw, and the run
\* has ended failed with the video charged once
C35_Witness ==
  \E r \in Runs :
    /\ Returned(r) /\ PipelineRun(r)
    /\ VideoUrlWriteThrew(r)
    /\ statusChecks[r] > 0
    /\ Row(r).status = "failed"
    /\ Row(r).outputVideoUrl = NULL
    /\ Row(r).actualCost =
         GEMINI_PROMPT_ENHANCEMENT + GEMINI_IMAGE_GENERATION
         + GEMINI_VIDEO_ANALYSIS + VIDEO_GENERATION

(***************************************************************************)
(* C36.  A creation request of a user who is not the admin and whose       *)
(* balance, as the handler reads it, is below the credits needed (1 for    *)
(* an image, 5 for a video) is answered 400 Insufficient credits, and the  *)
(* step that answers it changes neither a Project nor a balance and        *)
(* starts no run; the request stays answered, with no Project id and no    *)
(* write of its own.                                                       *)
(***************************************************************************)
\* the handler of request r has read a balance that does not cover the
\* request
BalanceTooLow(r) ==
  /\ pc[r] # "PostProjects"
  /\ projectData[r].valid
  /\ user[r] # NoUser
  /\ ~user[r].isAdmin
  /\ user[r].credits < creditsNeeded(projectData[r])

C36_InsufficientCreditsRejected ==
  /\ [](\A r \in Runs :
          /\ BalanceTooLow(r) =>
               /\ res[r] = [status |-> 400, message |-> "Insufficient credits"]
               /\ pc[r] = "responded"
               /\ projectId[r] = NULL
               /\ writes[r] = <<>>
          /\ res[r].message = "Insufficient credits" => BalanceTooLow(r))
  /\ [][\A r \in Runs :
          (pc[r] = "PostProjects" /\ BalanceTooLow(r)') =>
            /\ projects' = projects
            /\ users' = users
            /\ started' = started]_vars

\* a video request was refused on a balance of 4; the other request, for an
\* image, went through: one Project exists, one run was started, and the
\* balance is 3
C36_Witness ==
  \E r \in Runs, q \in Runs :
    /\ r # q
    /\ BalanceTooLow(r)
    /\ projectData[r].contentType = "video"
    /\ user[r].credits = 4
    /\ res[q].status = 200
    /\ projectData[q].contentType = "image"
    /\ users[ReqUser].credits = 3
    /\ Cardinality({p \in ProjectIds : projects[p] # NoProject}) = 1
    /\ started[projectId[q]] = 1
====
